---- MODULE Spec2Model ----
(***************************************************************************)
(* Coin ledger of go-back-coin-service: the Store operations of            *)
(* internal/db (CreateAccount, Recharge, BatchRecharge, Use, Transfer,     *)
(* SetCoinsExact, TouchUsage, DeleteAccount) run by concurrent request     *)
(* workers against one Postgres table (READ COMMITTED, row locks), with    *)
(* the post-commit notifications of Store.notify; and the per-client,      *)
(* per-operation token-bucket middleware GraphQLRateLimit in front of the  *)
(* GraphQL handler.                                                        *)
(***************************************************************************)
EXTENDS Integers, Sequences, FiniteSets, TLC

\* ---------------------------------------------------------------- bounds
\* request workers (Spec runs two of them, SpecUse up to all)
NumProcs == 3
\* largest balance of an account present at start
MaxInitial == 2
\* largest amount of the concurrent Use calls of SpecUse
MaxK == 2
\* largest starting balance of the account they use
MaxBalance == 4
\* seconds a measured stream of requests runs for
MaxTime == 2
\* largest burst of the quota of a measured stream
MaxBurst == 5
\* longest of the enumerated documents extractAPIs is applied to
MaxDocLen == 3

Procs == 1..NumProcs
Ids == {"u1", "u2"}
\* amounts, target balances and initial balances callers pass
Amounts == {-1, 0, 1}
\* userID arguments: none, malformed, a well-formed UUID to be canonicalised
UserInputs == {"", "nope", " A1 "}
\* dataID arguments: none, or the caller's event id
DataInputs == {"", "e1"}
\* coinIDs arguments of BatchRecharge
IdLists == {<<>>, <<"u1">>, <<"u1", "u2">>, <<"u2", "u2">>}

\* ------------------------------------------------------- rows and results
\* A row of public.coins; lr/lu = 0 stands for a NULL timestamp.
Account(c, lr, lu) == [present |-> TRUE, coins |-> c, lr |-> lr, lu |-> lu]
\* No row for the id (GetAccount returns nil, nil).
NoRow == [present |-> FALSE, coins |-> 0, lr |-> 0, lu |-> 0]
\* A transaction's pending (uncommitted) version of a row.
Clean == [dirty |-> FALSE, row |-> NoRow]
NoTx == [i \in Ids |-> Clean]
None == 0

\* Error values: the tokens of err.Error(); <<>> is a nil error.
NoErr == <<>>
ErrNoRows == <<"no rows in result set">>
ErrDB == <<"db:", "statement failed or context deadline exceeded">>
ErrPanic == <<"panic:", "nil pointer dereference">>
ErrUserRequired == <<"userID is required (UUID)">>
ErrUserInvalid == <<"invalid userID (must be UUID):", "invalid UUID">>
ErrAmount(op) == <<op \o ":", "amount must be > 0">>
ErrInsufficient(op) == <<op \o ":", "insufficient balance">>

\* strings.Contains(err.Error(), tok) on the tokens of the message
Contains(e, tok) == \E k \in 1..Len(e) : e[k] = tok

\* A match on another message than the one Store.Use returns.
isInsufficient_Funds(e) == e # NoErr /\ Contains(e, "insufficient funds")

\* grpcserver.isInsufficient
isInsufficient(e) == e # NoErr /\ Contains(e, "insufficient balance")

\* The status code CoinsServer.Deplete reports for what Store.Use returned.
DepleteCode(e) ==
  IF e = NoErr THEN "OK"
  ELSE IF isInsufficient(e) THEN "FailedPrecondition"
  ELSE "Internal"

\* strings.TrimSpace on the inputs the model draws
TrimSpace(s) ==
  CASE s = " " -> ""
    [] s = " A1 " -> "A1"
    [] s = " c1" -> "c1"
    [] OTHER -> s

\* uuid.Parse accepts either case; UUID.String() prints lower case.  "a1"
\* stands for a well-formed 36-character UUID, "A1" for its upper-case form.
UUIDParseOK(s) == s \in {"a1", "A1"}
UUIDString(s) == IF s = "A1" THEN "a1" ELSE s

canonicalUUIDErr(s) == IF UUIDParseOK(TrimSpace(s)) THEN NoErr ELSE ErrUserInvalid
canonicalUUID(s) == IF UUIDParseOK(TrimSpace(s)) THEN UUIDString(TrimSpace(s)) ELSE ""

\* Argument checks that let a zero amount through.
ValidateAmountUser_NonNeg(op, amount, userID) ==
  IF amount < 0 THEN ErrAmount(op)
  ELSE IF TrimSpace(userID) = "" THEN ErrUserRequired
  ELSE canonicalUUIDErr(userID)

\* The argument checks every balance mutation starts with (amount, userID).
ValidateAmountUser(op, amount, userID) ==
  IF amount <= 0 THEN ErrAmount(op)
  ELSE IF TrimSpace(userID) = "" THEN ErrUserRequired
  ELSE canonicalUUIDErr(userID)

\* SetCoinsExact checks the userID only.
ValidateUser(userID) ==
  IF TrimSpace(userID) = "" THEN ErrUserRequired ELSE canonicalUUIDErr(userID)

VARIABLES
  db,        \* committed rows of public.coins: id -> row
  lock,      \* row locks held by open transactions: id -> worker or None
  txw,       \* each worker's open transaction: id -> pending row version
  pc,        \* each worker's position in the operation it runs
  args,      \* arguments of the worker's call
  loc,       \* the call's local variables (coins, cur, from, tag)
  ret,       \* what the call returned
  sent,      \* the Notifier.Create calls the call made
  delta,     \* the balance change the call committed, per id
  clock,     \* NOW(): strictly later for every later stamping statement
  notifier,  \* Store.Notifier: "set" or "nil"
  watch,     \* the workers whose calls are observed: args, ret, sent and
             \* delta of the others are dropped when their call returns
  script     \* the number of steps of the test scenario that were started

\* The rate-limit middleware in front of the GraphQL handler.
VARIABLES
  cfg,       \* the quotas GraphQLRateLimit was built with
  limiters,  \* RateLimiter.limiters: rateKey -> token bucket
  reqs,      \* each HTTP handler goroutine's request and its progress
  meter      \* measurement of one (client, operation) stream of requests

ledgerVars == <<db, lock, txw, pc, args, loc, ret, sent, delta, clock, notifier, watch, script>>
gateVars == <<cfg, limiters, reqs, meter>>
vars == <<ledgerVars, gateVars>>

NoArgs == [op |-> "none", id |-> "", to |-> "", ids |-> <<>>, amount |-> 0, userID |-> ""]
NoLoc == [coins |-> 0, cur |-> NoRow, from |-> NoRow, rows |-> 0]
NoRet == [err |-> NoErr, acc |-> NoRow, to |-> NoRow, rows |-> 0]
NoDelta == [i \in Ids |-> 0]

\* ------------------------------------------------------------ primitives
\* s.GetAccount: the committed row (READ COMMITTED), nil when there is none.
GetAccount(id) == db[id]

\* The row version a statement of worker p's open transaction sees.
View(p, id) == IF txw[p][id].dirty THEN txw[p][id].row ELSE db[id]

\* A write that does not wait for the row lock.
CanWrite_NoWait(p, id) == TRUE

\* An UPDATE or DELETE of row id waits while another transaction holds its lock.
CanWrite(p, id) == lock[id] = None \/ lock[id] = p

\* A plain SELECT: it reads the row whoever holds it.
ForUpdateFree_NoWait(p, id) == TRUE

\* A SELECT ... FOR UPDATE that waits while any row of the table is locked.
ForUpdateFree_TableLock(p, id) == \A i \in Ids : lock[i] = None \/ lock[i] = p

\* SELECT ... FOR UPDATE waits for the row lock, and then holds it.
ForUpdateFree(p, id) == lock[id] = None \/ lock[id] = p

\* The deferred tx.Rollback: pending versions dropped, row locks released.
Released(p) == [i \in Ids |-> IF lock[i] = p THEN None ELSE lock[i]]

\* An end of transaction that drops the pending versions and keeps the locks.
Rollback_KeepLocks(p) ==
  /\ txw' = [txw EXCEPT ![p] = NoTx]
  /\ lock' = lock

Rollback(p) ==
  /\ txw' = [txw EXCEPT ![p] = NoTx]
  /\ lock' = Released(p)

\* tx.Commit: the pending versions become the committed rows.
Committed(p) == [i \in Ids |-> IF txw[p][i].dirty THEN txw[p][i].row ELSE db[i]]

CommittedDelta(p) ==
  [i \in Ids |-> IF txw[p][i].dirty THEN txw[p][i].row.coins - db[i].coins ELSE 0]

\* The recorded balance change of the call (observed workers only).
Record(p, d) == delta' = [delta EXCEPT ![p] = IF p \in watch THEN d ELSE NoDelta]

\* The operation returns r with notifications ns made on the way out; its
\* locals go away.
Finish(p, r, ns) ==
  /\ pc' = [pc EXCEPT ![p] = "done"]
  /\ loc' = [loc EXCEPT ![p] = NoLoc]
  /\ IF p \in watch
     THEN /\ ret' = [ret EXCEPT ![p] = r]
          /\ sent' = [sent EXCEPT ![p] = @ \o ns]
          /\ UNCHANGED args
     ELSE /\ args' = [args EXCEPT ![p] = NoArgs]
          /\ UNCHANGED <<ret, sent>>

Fail(p, e) == Finish(p, [NoRet EXCEPT !.err = e], <<>>)

\* A call passes its argument checks and goes on to its first statement.
Enter(p, a, first) ==
  /\ args' = [args EXCEPT ![p] = a]
  /\ pc' = [pc EXCEPT ![p] = first]
  /\ UNCHANGED <<loc, ret, sent, delta>>

\* A call rejected by its argument checks returns at once.
Reject(p, op, e) ==
  /\ args' = [args EXCEPT ![p] = IF p \in watch THEN [NoArgs EXCEPT !.op = op] ELSE NoArgs]
  /\ pc' = [pc EXCEPT ![p] = "done"]
  /\ ret' = [ret EXCEPT ![p] = IF p \in watch THEN [NoRet EXCEPT !.err = e] ELSE NoRet]
  /\ UNCHANGED <<loc, sent, delta>>

CanCall(p) == pc[p] = "idle"

\* What a Notifier.Create call meets: the ctx it is given is the operation's
\* own, whose deadline may have passed by now (expired), and the call fails
\* then; under a live ctx it succeeds (ok) or fails.
NotifyEnvs == {e \in [expired : BOOLEAN, ok : BOOLEAN] : e.expired => ~e.ok}

\* Store.notify: one Notifier.Create call under the caller's ctx, skipped when
\* no notifier is configured; its error is logged and dropped.
Note(p, coinID, dataID, amount, env) ==
  [userID |-> args[p].userID, coinID |-> coinID, dataID |-> dataID,
   coinUsed |-> amount, expired |-> env.expired, ok |-> env.ok]

notify(p, coinID, dataID, amount, env) ==
  IF notifier = "nil" THEN <<>> ELSE <<Note(p, coinID, dataID, amount, env)>>

\* The event id an operation sends: the caller's dataID, or one made of the
\* operation, the id and the time when the caller gave none.
EventID(op, coinID, dataID) ==
  IF TrimSpace(dataID) = "" THEN op \o ":" \o coinID \o ":" \o ToString(clock)
  ELSE dataID

\* The inputs a call's notifications depend on (the dataID argument and what
\* the notifier does); only an observed call's notifications are recorded.
DataChoices(p) == IF p \in watch /\ notifier = "set" THEN DataInputs ELSE {""}
EnvChoices(p) ==
  IF p \in watch /\ notifier = "set" THEN NotifyEnvs ELSE {[expired |-> FALSE, ok |-> TRUE]}

\* ------------------------------------------------------------------- Use
\* Store.Use up to Pool.Begin: the argument checks, then the transaction opens.
CallUse(p) ==
  /\ CanCall(p)
  /\ \E id \in Ids, amount \in Amounts, userID \in UserInputs :
       LET e == ValidateAmountUser("use", amount, userID) IN
       IF e # NoErr THEN Reject(p, "use", e)
       ELSE Enter(p, [NoArgs EXCEPT !.op = "use", !.id = id, !.amount = amount,
                        !.userID = canonicalUUID(userID)],
                  "use_select")
  /\ UNCHANGED <<db, lock, txw, clock, notifier, watch, script, gateVars>>

\* SELECT coins ... FOR UPDATE and the sufficiency check on what it read.
UseSelect(p) ==
  /\ pc[p] = "use_select"
  /\ LET id == args[p].id IN
     IF ~db[id].present
     THEN /\ Rollback(p) /\ Fail(p, ErrNoRows)
     ELSE /\ ForUpdateFree(p, id)
          /\ IF db[id].coins < args[p].amount
             THEN /\ Rollback(p) /\ Fail(p, ErrInsufficient("use"))
             ELSE /\ lock' = [lock EXCEPT ![id] = p]
                  /\ loc' = [loc EXCEPT ![p].coins = db[id].coins]
                  /\ pc' = [pc EXCEPT ![p] = "use_update"]
                  /\ UNCHANGED <<txw, args, ret, sent>>
  /\ UNCHANGED <<db, delta, clock, notifier, watch, script, gateVars>>

\* A row's version after UPDATE ... SET coins = coins - $2, last_usage_date = NOW()
Debited(r, amount) == Account(r.coins - amount, r.lr, clock)

\* A credit that stamps the row and adds nothing.
Credited_NoCoins(r, amount) == Account(r.coins, clock, r.lu)

\* A row's version after UPDATE ... SET coins = coins + $2, last_recharge_date = NOW()
Credited(r, amount) == Account(r.coins + amount, clock, r.lu)

\* An UPDATE of row id inside worker p's transaction: it waits for the row
\* lock, keeps it until the transaction ends, and writes a pending version; it
\* matches no row, and reports no error, when the id has none.
TxUpdate(p, id, new) ==
  IF View(p, id).present
  THEN /\ CanWrite(p, id)
       /\ txw' = [txw EXCEPT ![p][id] = [dirty |-> TRUE, row |-> new]]
       /\ lock' = [lock EXCEPT ![id] = p]
       /\ clock' = clock + 1
  ELSE UNCHANGED <<txw, lock, clock>>

\* The debit UPDATE of Use inside the tx.
UseUpdate(p) ==
  /\ pc[p] = "use_update"
  /\ TxUpdate(p, args[p].id, Debited(View(p, args[p].id), args[p].amount))
  /\ pc' = [pc EXCEPT ![p] = "use_commit"]
  /\ UNCHANGED <<db, args, loc, ret, sent, delta, notifier, watch, script, gateVars>>

\* tx.Commit: the pending versions are committed, the row locks released.
TxCommit(p) ==
  /\ db' = Committed(p)
  /\ Record(p, CommittedDelta(p))
  /\ Rollback(p)

UseCommit(p) ==
  /\ pc[p] = "use_commit"
  /\ TxCommit(p)
  /\ pc' = [pc EXCEPT ![p] = "use_readback"]
  /\ UNCHANGED <<args, loc, ret, sent, clock, notifier, watch, script, gateVars>>

\* A return that hands the notifier's error to the caller.
NotifyAndReturn_Propagate(p, acc, n) ==
  IF \E k \in 1..Len(n) : ~n[k].ok
  THEN Finish(p, [NoRet EXCEPT !.err = ErrDB], n)
  ELSE IF acc.present
  THEN Finish(p, [NoRet EXCEPT !.acc = acc], n)
  ELSE Finish(p, [NoRet EXCEPT !.err = ErrPanic], n)

\* One notification and return acc, nil; the closing log line reads
\* acc.Coins, which panics when the read-back found no row.
NotifyAndReturn(p, acc, n) ==
  IF acc.present
  THEN Finish(p, [NoRet EXCEPT !.acc = acc], n)
  ELSE Finish(p, [NoRet EXCEPT !.err = ErrPanic], n)

\* After the commit: the read-back s.GetAccount, s.notify, return.
UseFinish(p) ==
  /\ pc[p] = "use_readback"
  /\ \E dataID \in DataChoices(p), env \in EnvChoices(p) :
       NotifyAndReturn(p, GetAccount(args[p].id),
                       notify(p, args[p].id, EventID("use", args[p].id, dataID),
                              args[p].amount, env))
  /\ UNCHANGED <<db, lock, txw, delta, clock, notifier, watch, script, gateVars>>

\* An error return of Use that notifies the debit it did not commit.
UseFail_Notified(p) ==
  /\ pc[p] \in {"use_select", "use_update", "use_commit", "use_readback"}
  /\ Rollback(p)
  /\ Finish(p, [NoRet EXCEPT !.err = ErrDB],
            notify(p, args[p].id, EventID("use", args[p].id, ""), args[p].amount,
                   [expired |-> FALSE, ok |-> TRUE]))
  /\ UNCHANGED <<db, delta, clock, notifier, watch, script, gateVars>>

\* A statement of Use returns an error (the database fails, or the ctx
\* deadline has passed): before the commit the deferred Rollback undoes the
\* transaction; after it the error of the read-back is returned.  A failing
\* Pool.Begin is the first case as well.
UseFail(p) ==
  /\ pc[p] \in {"use_select", "use_update", "use_commit", "use_readback"}
  /\ Rollback(p)
  /\ Fail(p, ErrDB)
  /\ UNCHANGED <<db, delta, clock, notifier, watch, script, gateVars>>

\* ---------------------------------------------------- CoinsServer.Deplete
\* A gRPC status error: its code and its description.
StatusErr(code, desc) == <<"rpc error:", code>> \o desc
StatusCode(e) == IF e = NoErr THEN "OK" ELSE e[2]

\* The handler returns the status error e (nil when e is NoErr).
Reply(p, e) ==
  /\ pc' = [pc EXCEPT ![p] = "replied"]
  /\ ret' = [ret EXCEPT ![p].err = e]

\* Deplete up to the first statement of Store.Use: the checks of the handler
\* (id, amount, user_id not empty), then those of Store.Use, whose error
\* comes back through the switch on isInsufficient.
CallDeplete(p) ==
  /\ pc[p] = "dp_check"
  /\ LET a == args[p]
          e == ValidateAmountUser("use", a.amount, a.userID)
     IN IF TrimSpace(a.id) = ""
        THEN Reply(p, StatusErr("InvalidArgument", <<"id is required">>)) /\ UNCHANGED args
        ELSE IF a.amount <= 0
        THEN Reply(p, StatusErr("InvalidArgument", <<"amount must be > 0">>)) /\ UNCHANGED args
        ELSE IF TrimSpace(a.userID) = ""
        THEN Reply(p, StatusErr("InvalidArgument", <<"user_id (UUID) is required">>))
             /\ UNCHANGED args
        ELSE IF e # NoErr
        THEN Reply(p, StatusErr(DepleteCode(e), <<"deplete:">> \o e)) /\ UNCHANGED args
        ELSE /\ args' = [args EXCEPT ![p].userID = canonicalUUID(a.userID)]
             /\ pc' = [pc EXCEPT ![p] = "use_select"]
             /\ UNCHANGED ret
  /\ UNCHANGED <<db, lock, txw, loc, sent, delta, clock, notifier, watch, script, gateVars>>

\* Store.Use has returned: the account goes out as the reply, an error as a
\* status error with the code of DepleteCode.
DepleteReply(p) ==
  /\ pc[p] = "done"
  /\ args[p].op = "deplete"
  /\ Reply(p, IF ret[p].err = NoErr THEN NoErr
              ELSE StatusErr(DepleteCode(ret[p].err), ret[p].err))
  /\ UNCHANGED <<db, lock, txw, args, loc, sent, delta, clock, notifier, watch, script, gateVars>>

\* -------------------------------------------------------------- Transfer
CallTransfer(p) ==
  /\ CanCall(p)
  /\ \E from \in Ids, to \in Ids, amount \in Amounts, userID \in UserInputs :
       LET e == ValidateAmountUser("transfer", amount, userID) IN
       IF e # NoErr THEN Reject(p, "transfer", e)
       ELSE Enter(p, [NoArgs EXCEPT !.op = "transfer", !.id = from, !.to = to,
                        !.amount = amount, !.userID = canonicalUUID(userID)],
                  "tr_select")
  /\ UNCHANGED <<db, lock, txw, clock, notifier, watch, script, gateVars>>

\* SELECT coins ... WHERE id = fromID FOR UPDATE and the sufficiency check.
TransferSelect(p) ==
  /\ pc[p] = "tr_select"
  /\ LET id == args[p].id IN
     IF ~db[id].present
     THEN /\ Rollback(p) /\ Fail(p, ErrNoRows)
     ELSE /\ ForUpdateFree(p, id)
          /\ IF db[id].coins < args[p].amount
             THEN /\ Rollback(p) /\ Fail(p, ErrInsufficient("transfer"))
             ELSE /\ lock' = [lock EXCEPT ![id] = p]
                  /\ loc' = [loc EXCEPT ![p].coins = db[id].coins]
                  /\ pc' = [pc EXCEPT ![p] = "tr_debit"]
                  /\ UNCHANGED <<txw, args, ret, sent>>
  /\ UNCHANGED <<db, delta, clock, notifier, watch, script, gateVars>>

\* The debit UPDATE of fromID inside the tx.
TransferDebit(p) ==
  /\ pc[p] = "tr_debit"
  /\ TxUpdate(p, args[p].id, Debited(View(p, args[p].id), args[p].amount))
  /\ pc' = [pc EXCEPT ![p] = "tr_credit"]
  /\ UNCHANGED <<db, args, loc, ret, sent, delta, notifier, watch, script, gateVars>>

\* The credit UPDATE of toID inside the tx.
TransferCredit(p) ==
  /\ pc[p] = "tr_credit"
  /\ TxUpdate(p, args[p].to, Credited(View(p, args[p].to), args[p].amount))
  /\ pc' = [pc EXCEPT ![p] = "tr_commit"]
  /\ UNCHANGED <<db, args, loc, ret, sent, delta, notifier, watch, script, gateVars>>

TransferCommit(p) ==
  /\ pc[p] = "tr_commit"
  /\ TxCommit(p)
  /\ pc' = [pc EXCEPT ![p] = "tr_readfrom"]
  /\ UNCHANGED <<args, loc, ret, sent, clock, notifier, watch, script, gateVars>>

\* from, err := s.GetAccount(ctx, fromID)
TransferReadFrom(p) ==
  /\ pc[p] = "tr_readfrom"
  /\ loc' = [loc EXCEPT ![p].from = GetAccount(args[p].id)]
  /\ pc' = [pc EXCEPT ![p] = "tr_readto"]
  /\ UNCHANGED <<db, lock, txw, args, ret, sent, delta, clock, notifier, watch, script, gateVars>>

\* The event ids of the two legs.
TransferOutID(from, to, dataID) ==
  IF TrimSpace(dataID) = ""
  THEN "transfer:out:" \o from \o "->" \o to \o ":" \o ToString(clock)
  ELSE dataID \o ":out"

TransferInID(from, to, dataID) ==
  IF TrimSpace(dataID) = ""
  THEN "transfer:in:" \o from \o "->" \o to \o ":" \o ToString(clock)
  ELSE dataID \o ":in"

\* to, err := s.GetAccount(ctx, toID), the two s.notify calls, return from, to, nil.
TransferFinish(p) ==
  /\ pc[p] = "tr_readto"
  /\ LET a == args[p] IN
     \E dataID \in DataChoices(p), env1 \in EnvChoices(p), env2 \in EnvChoices(p) :
       /\ env1.expired => env2.expired
       /\ Finish(p, [NoRet EXCEPT !.acc = loc[p].from, !.to = GetAccount(a.to)],
                 notify(p, a.id, TransferOutID(a.id, a.to, dataID), a.amount, env1)
                 \o notify(p, a.to, TransferInID(a.id, a.to, dataID), a.amount, env2))
  /\ UNCHANGED <<db, lock, txw, delta, clock, notifier, watch, script, gateVars>>

\* A statement of Transfer returns an error: rollback before the commit, the
\* read-back's error after it.
TransferFail(p) ==
  /\ pc[p] \in {"tr_select", "tr_debit", "tr_credit", "tr_commit",
                "tr_readfrom", "tr_readto"}
  /\ Rollback(p)
  /\ Fail(p, ErrDB)
  /\ UNCHANGED <<db, delta, clock, notifier, watch, script, gateVars>>

\* -------------------------------------------------------------- Recharge
CallRecharge(p) ==
  /\ CanCall(p)
  /\ \E id \in Ids, amount \in Amounts, userID \in UserInputs :
       LET e == ValidateAmountUser("recharge", amount, userID) IN
       IF e # NoErr THEN Reject(p, "recharge", e)
       ELSE Enter(p, [NoArgs EXCEPT !.op = "recharge", !.id = id, !.amount = amount,
                        !.userID = canonicalUUID(userID)],
                  "re_update")
  /\ UNCHANGED <<db, lock, txw, clock, notifier, watch, script, gateVars>>

\* UPDATE ... SET coins = coins + $2, last_recharge_date = NOW() WHERE id=$1,
\* one autocommitted statement: it waits for the row lock, and matches no row
\* (without an error) when the id has none.
RechargeUpdate(p) ==
  /\ pc[p] = "re_update"
  /\ LET id == args[p].id IN
     IF db[id].present
     THEN /\ CanWrite(p, id)
          /\ db' = [db EXCEPT ![id] = Credited(db[id], args[p].amount)]
          /\ Record(p, [NoDelta EXCEPT ![id] = args[p].amount])
          /\ clock' = clock + 1
     ELSE UNCHANGED <<db, delta, clock>>
  /\ pc' = [pc EXCEPT ![p] = "re_readback"]
  /\ UNCHANGED <<lock, txw, args, loc, ret, sent, notifier, watch, script, gateVars>>

\* The read-back s.GetAccount, s.notify, return.
RechargeFinish(p) ==
  /\ pc[p] = "re_readback"
  /\ \E dataID \in DataChoices(p), env \in EnvChoices(p) :
       NotifyAndReturn(p, GetAccount(args[p].id),
                       notify(p, args[p].id, EventID("recharge", args[p].id, dataID),
                              args[p].amount, env))
  /\ UNCHANGED <<db, lock, txw, delta, clock, notifier, watch, script, gateVars>>

RechargeFail(p) ==
  /\ pc[p] \in {"re_update", "re_readback"}
  /\ Fail(p, ErrDB)
  /\ UNCHANGED <<db, lock, txw, delta, clock, notifier, watch, script, gateVars>>

\* --------------------------------------------------------- BatchRecharge
CallBatchRecharge(p) ==
  /\ CanCall(p)
  /\ \E ids \in IdLists, amount \in Amounts, userID \in UserInputs :
       LET e == ValidateAmountUser("batchRecharge", amount, userID) IN
       IF e # NoErr THEN Reject(p, "batch", e)
       ELSE Enter(p, [NoArgs EXCEPT !.op = "batch", !.ids = ids, !.amount = amount,
                        !.userID = canonicalUUID(userID)],
                  "ba_exec")
  /\ UNCHANGED <<db, lock, txw, clock, notifier, watch, script, gateVars>>

\* A statement that matches the first element of coinIDs only.
BatchTargets_Head(ids) == {i \in Ids : db[i].present /\ Len(ids) > 0 /\ ids[1] = i}

\* The rows WHERE id = ANY($1) matches.
BatchTargets(ids) == {i \in Ids : db[i].present /\ \E k \in 1..Len(ids) : ids[k] = i}

\* The event id of one element of coinIDs.
BatchEventID(cid, baseDataID) ==
  IF TrimSpace(baseDataID) = ""
  THEN "batchrecharge:" \o cid \o ":" \o ToString(clock)
  ELSE baseDataID \o ":" \o cid

\* The notification loop: one s.notify per element of coinIDs, in order.
RECURSIVE BatchNotes(_, _, _, _)
BatchNotes(p, k, baseDataID, envs) ==
  IF k > Len(args[p].ids) THEN <<>>
  ELSE notify(p, args[p].ids[k], BatchEventID(args[p].ids[k], baseDataID),
              args[p].amount, envs[k])
       \o BatchNotes(p, k + 1, baseDataID, envs)

\* The one UPDATE ... WHERE id = ANY($1): a single autocommitted statement,
\* all the matched rows or none.
BatchRechargeExec(p) ==
  /\ pc[p] = "ba_exec"
  /\ LET T == BatchTargets(args[p].ids)
     IN /\ \A i \in T : CanWrite(p, i)
        /\ db' = [i \in Ids |-> IF i \in T THEN Credited(db[i], args[p].amount) ELSE db[i]]
        /\ Record(p, [i \in Ids |-> IF i \in T THEN args[p].amount ELSE 0])
        /\ clock' = IF T = {} THEN clock ELSE clock + 1
        /\ loc' = [loc EXCEPT ![p].rows = Cardinality(T)]
  /\ pc' = [pc EXCEPT ![p] = "ba_notify"]
  /\ UNCHANGED <<lock, txw, args, ret, sent, notifier, watch, script, gateVars>>

\* The notification loop, return tag.RowsAffected(), nil.
BatchRechargeFinish(p) ==
  /\ pc[p] = "ba_notify"
  /\ LET n == Len(args[p].ids) IN
     \E baseDataID \in DataChoices(p), envs \in [1..n -> EnvChoices(p)] :
       /\ \A j, k \in 1..n : (j < k /\ envs[j].expired) => envs[k].expired
       /\ Finish(p, [NoRet EXCEPT !.rows = loc[p].rows],
                 BatchNotes(p, 1, baseDataID, envs))
  /\ UNCHANGED <<db, lock, txw, delta, clock, notifier, watch, script, gateVars>>

BatchRechargeFail(p) ==
  /\ pc[p] = "ba_exec"
  /\ Fail(p, ErrDB)
  /\ UNCHANGED <<db, lock, txw, delta, clock, notifier, watch, script, gateVars>>

\* --------------------------------------------------------- SetCoinsExact
CallSetCoinsExact(p) ==
  /\ CanCall(p)
  /\ \E id \in Ids, coins \in Amounts, userID \in UserInputs :
       LET e == ValidateUser(userID) IN
       IF e # NoErr THEN Reject(p, "setexact", e)
       ELSE Enter(p, [NoArgs EXCEPT !.op = "setexact", !.id = id, !.amount = coins,
                        !.userID = canonicalUUID(userID)],
                  "se_read")
  /\ UNCHANGED <<db, lock, txw, clock, notifier, watch, script, gateVars>>

\* cur, _ := s.GetAccount(ctx, coinID)
SetCoinsExactRead(p) ==
  /\ pc[p] = "se_read"
  /\ loc' = [loc EXCEPT ![p].cur = GetAccount(args[p].id)]
  /\ pc' = [pc EXCEPT ![p] = "se_update"]
  /\ UNCHANGED <<db, lock, txw, args, ret, sent, delta, clock, notifier, watch, script, gateVars>>

\* The same read fails: its error is discarded and cur stays nil.
SetCoinsExactReadFail(p) ==
  /\ pc[p] = "se_read"
  /\ pc' = [pc EXCEPT ![p] = "se_update"]
  /\ UNCHANGED <<db, lock, txw, args, loc, ret, sent, delta, clock, notifier, watch, script, gateVars>>

\* UPDATE public.coins SET coins=$2 WHERE id=$1 (autocommitted, no timestamp)
SetCoinsExactUpdate(p) ==
  /\ pc[p] = "se_update"
  /\ LET id == args[p].id IN
     IF db[id].present
     THEN /\ CanWrite(p, id)
          /\ db' = [db EXCEPT ![id].coins = args[p].amount]
          /\ Record(p, [NoDelta EXCEPT ![id] = args[p].amount - db[id].coins])
     ELSE UNCHANGED <<db, delta>>
  /\ pc' = [pc EXCEPT ![p] = "se_readback"]
  /\ UNCHANGED <<lock, txw, args, loc, ret, sent, clock, notifier, watch, script, gateVars>>

Abs(x) == IF x < 0 THEN -x ELSE x

\* The read-back, the notification of |acc.Coins - cur.Coins| when cur is
\* known and the balance differs from it, return acc, nil.
SetCoinsExactFinish(p) ==
  /\ pc[p] = "se_readback"
  /\ LET id == args[p].id
         cur == loc[p].cur
         acc == GetAccount(id)
     IN \E dataID \in DataChoices(p), env \in EnvChoices(p) :
          NotifyAndReturn(p, acc,
            IF acc.present /\ cur.present /\ acc.coins # cur.coins
            THEN notify(p, id, EventID("setexact", id, dataID),
                        Abs(acc.coins - cur.coins), env)
            ELSE <<>>)
  /\ UNCHANGED <<db, lock, txw, delta, clock, notifier, watch, script, gateVars>>

SetCoinsExactFail(p) ==
  /\ pc[p] \in {"se_update", "se_readback"}
  /\ Fail(p, ErrDB)
  /\ UNCHANGED <<db, lock, txw, delta, clock, notifier, watch, script, gateVars>>

\* ------------------------------------------------------------ TouchUsage
CallTouchUsage(p) ==
  /\ CanCall(p)
  /\ \E id \in Ids :
       Enter(p, [NoArgs EXCEPT !.op = "touch", !.id = id], "to_update")
  /\ UNCHANGED <<db, lock, txw, clock, notifier, watch, script, gateVars>>

\* A touch that stamps both timestamps.
TouchUsageUpdate_Both(p) ==
  /\ pc[p] = "to_update"
  /\ LET id == args[p].id IN
     IF db[id].present
     THEN /\ CanWrite(p, id)
          /\ db' = [db EXCEPT ![id].lu = clock, ![id].lr = clock]
          /\ clock' = clock + 1
     ELSE UNCHANGED <<db, clock>>
  /\ pc' = [pc EXCEPT ![p] = "to_readback"]
  /\ UNCHANGED <<lock, txw, args, loc, ret, sent, delta, notifier, watch, script, gateVars>>

\* UPDATE public.coins SET last_usage_date = NOW() WHERE id=$1
TouchUsageUpdate(p) ==
  /\ pc[p] = "to_update"
  /\ LET id == args[p].id IN
     IF db[id].present
     THEN /\ CanWrite(p, id)
          /\ db' = [db EXCEPT ![id].lu = clock]
          /\ clock' = clock + 1
     ELSE UNCHANGED <<db, clock>>
  /\ pc' = [pc EXCEPT ![p] = "to_readback"]
  /\ UNCHANGED <<lock, txw, args, loc, ret, sent, delta, notifier, watch, script, gateVars>>

\* The read-back; return acc, nil (nil when there is no row).
TouchUsageFinish(p) ==
  /\ pc[p] = "to_readback"
  /\ Finish(p, [NoRet EXCEPT !.acc = GetAccount(args[p].id)], <<>>)
  /\ UNCHANGED <<db, lock, txw, delta, clock, notifier, watch, script, gateVars>>

TouchUsageFail(p) ==
  /\ pc[p] \in {"to_update", "to_readback"}
  /\ Fail(p, ErrDB)
  /\ UNCHANGED <<db, lock, txw, delta, clock, notifier, watch, script, gateVars>>

\* --------------------------------------------------------- CreateAccount
CallCreateAccount(p) ==
  /\ CanCall(p)
  /\ \E id \in Ids, initial \in Amounts :
       Enter(p, [NoArgs EXCEPT !.op = "create", !.id = id, !.amount = initial],
             "cr_insert")
  /\ UNCHANGED <<db, lock, txw, clock, notifier, watch, script, gateVars>>

\* An insert that overwrites the balance of a row it finds
\* (ON CONFLICT (id) DO UPDATE SET coins = EXCLUDED.coins).
CreateAccountInsert_Upsert(p) ==
  /\ pc[p] = "cr_insert"
  /\ LET id == args[p].id IN
       /\ db' = [db EXCEPT ![id] = Account(args[p].amount, 0, 0)]
       /\ Record(p, [NoDelta EXCEPT ![id] = args[p].amount - db[id].coins])
  /\ pc' = [pc EXCEPT ![p] = "cr_readback"]
  /\ UNCHANGED <<lock, txw, args, loc, ret, sent, clock, notifier, watch, script, gateVars>>

\* INSERT INTO public.coins (id, coins) VALUES ($1, $2) ON CONFLICT (id) DO NOTHING
CreateAccountInsert(p) ==
  /\ pc[p] = "cr_insert"
  /\ LET id == args[p].id IN
     IF db[id].present
     THEN UNCHANGED <<db, delta>>
     ELSE /\ db' = [db EXCEPT ![id] = Account(args[p].amount, 0, 0)]
          /\ Record(p, [NoDelta EXCEPT ![id] = args[p].amount])
  /\ pc' = [pc EXCEPT ![p] = "cr_readback"]
  /\ UNCHANGED <<lock, txw, args, loc, ret, sent, clock, notifier, watch, script, gateVars>>

\* The read-back; the closing log line reads acc.Coins.
CreateAccountFinish(p) ==
  /\ pc[p] = "cr_readback"
  /\ NotifyAndReturn(p, GetAccount(args[p].id), <<>>)
  /\ UNCHANGED <<db, lock, txw, delta, clock, notifier, watch, script, gateVars>>

CreateAccountFail(p) ==
  /\ pc[p] \in {"cr_insert", "cr_readback"}
  /\ Fail(p, ErrDB)
  /\ UNCHANGED <<db, lock, txw, delta, clock, notifier, watch, script, gateVars>>

\* --------------------------------------------------------- DeleteAccount
CallDeleteAccount(p) ==
  /\ CanCall(p)
  /\ \E id \in Ids :
       Enter(p, [NoArgs EXCEPT !.op = "delete", !.id = id], "de_exec")
  /\ UNCHANGED <<db, lock, txw, clock, notifier, watch, script, gateVars>>

\* DELETE FROM public.coins WHERE id=$1; return RowsAffected() > 0.
DeleteAccountExec(p) ==
  /\ pc[p] = "de_exec"
  /\ LET id == args[p].id IN
     IF db[id].present
     THEN /\ CanWrite(p, id)
          /\ db' = [db EXCEPT ![id] = NoRow]
          /\ Record(p, [NoDelta EXCEPT ![id] = 0 - db[id].coins])
          /\ Finish(p, [NoRet EXCEPT !.rows = 1], <<>>)
     ELSE /\ UNCHANGED <<db, delta>>
          /\ Finish(p, NoRet, <<>>)
  /\ UNCHANGED <<lock, txw, clock, notifier, watch, script, gateVars>>

DeleteAccountFail(p) ==
  /\ pc[p] = "de_exec"
  /\ Fail(p, ErrDB)
  /\ UNCHANGED <<db, lock, txw, delta, clock, notifier, watch, script, gateVars>>

\* ============================================================ the gateway
\* Documents, field names and request bodies are sequences of characters.
Mutation == <<"m", "u", "t", "a", "t", "i", "o", "n">>
Query == <<"q", "u", "e", "r", "y">>
Subscription == <<"s", "u", "b", "s", "c", "r", "i", "p", "t", "i", "o", "n">>
Fragment == <<"f", "r", "a", "g", "m", "e", "n", "t">>
On == <<"o", "n">>

\* \s of spaceRE, and the cutset of strings.TrimSpace
IsSpace(c) == c \in {" ", "\n", "\t"}

\* spaceRE.ReplaceAllString(query, " "): every run of white space becomes
\* one blank.
RECURSIVE SqueezeSpace(_)
SqueezeSpace(q) ==
  IF q = <<>> THEN <<>>
  ELSE IF IsSpace(Head(q))
  THEN IF Len(q) > 1 /\ IsSpace(q[2])
       THEN SqueezeSpace(Tail(q))
       ELSE <<" ">> \o SqueezeSpace(Tail(q))
  ELSE <<Head(q)>> \o SqueezeSpace(Tail(q))

\* strings.TrimSpace on a sequence of characters
RECURSIVE TrimLeft(_)
TrimLeft(q) == IF q # <<>> /\ IsSpace(Head(q)) THEN TrimLeft(Tail(q)) ELSE q

RECURSIVE TrimRight(_)
TrimRight(q) ==
  IF q # <<>> /\ IsSpace(q[Len(q)]) THEN TrimRight(SubSeq(q, 1, Len(q) - 1)) ELSE q

TrimSpaceSeq(q) == TrimRight(TrimLeft(q))

\* strings.Index(q, c) for a one-character c, counted from 1; 0 when absent.
RECURSIVE IndexFrom(_, _, _)
IndexFrom(q, c, i) ==
  IF i > Len(q) THEN 0 ELSE IF q[i] = c THEN i ELSE IndexFrom(q, c, i + 1)

Index(q, c) == IndexFrom(q, c, 1)

\* strings.ToLower on the letters documents are written with
LowerChar(c) ==
  CASE c = "M" -> "m"
    [] c = "Q" -> "q"
    [] c = "A" -> "a"
    [] OTHER -> c

ToLower(q) == [i \in 1..Len(q) |-> LowerChar(q[i])]

\* strings.HasPrefix
HasPrefix(q, pre) == Len(q) >= Len(pre) /\ SubSeq(q, 1, Len(pre)) = pre

\* The flush closure of extractAPIs: the name collected in b, its alias cut
\* off, is appended to fields unless it is empty or a keyword.
FlushName(b) ==
  LET idx == Index(b, ":")
      s == IF idx # 0 THEN TrimSpaceSeq(SubSeq(b, idx + 1, Len(b))) ELSE b
  IN TrimSpaceSeq(s)

flush(b, fields) ==
  IF b = <<>> THEN fields
  ELSE IF FlushName(b) \notin {<<>>, Query, Mutation, Subscription, Fragment, On}
  THEN Append(fields, FlushName(b))
  ELSE fields

\* The characters that end a name at depth 1 (third case of the switch).
EndsName(r) == r \in {"(", " ", "\n", "\t", "{", ","}

\* The rune loop of extractAPIs over q from position i on, and the flush
\* after it.
RECURSIVE scan(_, _, _, _, _)
scan(q, i, depth, b, fields) ==
  IF i > Len(q) THEN flush(b, fields)
  ELSE LET r == q[i] IN
       IF r = "{" THEN scan(q, i + 1, depth + 1, <<>>, flush(b, fields))
       ELSE IF r = "}" THEN scan(q, i + 1, depth - 1, <<>>, flush(b, fields))
       ELSE IF depth = 1 /\ EndsName(r) THEN scan(q, i + 1, depth, <<>>, flush(b, fields))
       ELSE IF depth = 1 THEN scan(q, i + 1, depth, Append(b, r), fields)
       ELSE scan(q, i + 1, depth, b, fields)

\* The de-dup loop: the first occurrence of every name, in order.
RECURSIVE uniq(_, _)
uniq(fields, seen) ==
  IF fields = <<>> THEN <<>>
  ELSE IF Head(fields) \in seen THEN uniq(Tail(fields), seen)
  ELSE <<Head(fields)>> \o uniq(Tail(fields), seen \cup {Head(fields)})

\* The document as extractAPIs works on it.
Normalised(query) == TrimSpaceSeq(SqueezeSpace(query))

\* The names the rune loop collects, before the de-dup.
scanned(query) ==
  LET q == Normalised(query)
      brace == Index(q, "{")
  IN IF brace = 0 THEN <<>> ELSE scan(q, brace, 0, <<>>, <<>>)

\* extractAPIs(query): the operation type and the top-level field names.
extractAPIs(query) ==
  LET q == Normalised(query)
      brace == Index(q, "{")
      head == ToLower(TrimSpaceSeq(SubSeq(q, 1, brace - 1)))
  IN IF brace = 0 THEN [opType |-> "query", fields |-> <<>>]
     ELSE [opType |-> IF HasPrefix(head, Mutation) THEN "mutation" ELSE "query",
           fields |-> uniq(scanned(query), {})]

\* RateCfg{PerMinute, Burst}
RateCfg(perMinute, burst) == [PerMinute |-> perMinute, Burst |-> burst]

\* A rate.Limiter: its refill per minute, its burst and the tokens it holds,
\* counted in sixtieths of a token (a second refills PerMinute sixtieths).
NewLimiter(c) == [perMinute |-> c.PerMinute, burst |-> c.Burst, tokens |-> c.Burst * 60]

\* NewRateLimiter(): no bucket yet.
NoLimiters == [k \in {} |-> NewLimiter(RateCfg(0, 0))]

\* A lookup that sets the rate and the capacity of the bucket it finds to cfg.
limiterFor_Reconfigure(k, c) ==
  IF k \in DOMAIN limiters
  THEN [limiters[k] EXCEPT !.perMinute = c.PerMinute, !.burst = c.Burst]
  ELSE NewLimiter(c)

\* rl.limiterFor(k, cfg): the bucket of key k, made from cfg when k has none.
limiterFor(k, c) == IF k \in DOMAIN limiters THEN limiters[k] ELSE NewLimiter(c)

\* Limiter.Allow(): a whole token is there to take.
Allow(l) == l.tokens >= 60

\* An Allow() that takes nothing.
Taken_Nothing(l) == l

\* The limiter after Allow(): one token less when it said yes.
Taken(l) == IF Allow(l) THEN [l EXCEPT !.tokens = @ - 60] ELSE l

\* The limiter a second later: refilled by its rate, up to its burst.
Refilled(l) ==
  [l EXCEPT !.tokens = IF @ + l.perMinute > l.burst * 60 THEN l.burst * 60
                       ELSE @ + l.perMinute]

\* The quota of field f in a document of type opType (the loop body of the
\* middleware): the override of f, else the default of the operation type.
quotaFor(f, opType) ==
  IF f \in DOMAIN cfg.apiOverrides THEN cfg.apiOverrides[f]
  ELSE IF opType = "mutation" THEN cfg.defaultMutation
  ELSE cfg.defaultQuery

\* clientKey(r): the first X-Forwarded-For hop when the header is there,
\* else the host of RemoteAddr (RemoteAddr itself when it has no port).
clientKey(r) == IF r.xff # <<>> THEN TrimSpace(r.xff[1]) ELSE r.host

\* Request bodies: JSON with a query document, JSON without one, not JSON.
NoBody == [kind |-> "none", query |-> <<>>]
BadJSON == [kind |-> "bad", query |-> <<>>]
NoQuery == [kind |-> "noquery", query |-> <<>>]
Doc(q) == [kind |-> "doc", query |-> q]

\* A decoder that puts a default document where it finds none.
QueryOf_Default(body) == IF body.kind = "doc" THEN body.query ELSE <<"{", "a", "}">>

\* json.Unmarshal(body, &req) with its error dropped; req.Query
QueryOf(body) == IF body.kind = "doc" THEN body.query ELSE <<>>

\* The documents of the mixed traffic.
DocA == <<"{", "a", "}">>
DocMutationA == Mutation \o <<" ", "{", " ", "a", " ", "}">>
DocAC == <<"{", "a", "\n", "c", "}">>
DocAliases == <<"{", "x", ":", "a", " ", "y", ":", "a", "}">>
DocMutationC == Mutation \o <<"{", "c", "}">>
DocEmptyBlock == Query \o <<" ", "{", " ", "}">>
DocNoBlock == Query

GateDocs == {DocA, DocMutationA, DocAC, DocAliases, DocMutationC,
             DocEmptyBlock, DocNoBlock}
Bodies == {BadJSON, NoQuery} \cup {Doc(q) : q \in GateDocs}

Methods == {"POST", "GET"}

\* Who sends: a direct client, or one behind a proxy naming it.
Senders == {[xff |-> <<>>, host |-> "c1"],
            [xff |-> <<>>, host |-> "c2"],
            [xff |-> <<" c1", "c2">>, host |-> "c2"]}

Handlers == {1, 2}

\* A handler goroutine with no request.
NoReq ==
  [st |-> "IDLE", method |-> "", body |-> NoBody, client |-> "",
   opType |-> "", fields |-> <<>>, i |-> 0, denied |-> <<>>,
   served |-> 0, fwd |-> NoBody, code |-> 0]

\* The inputs of handler h's next request: any for the first handler; the
\* others, and every handler of a measured stream, send POST {a}.
Mixed(h) == h = 1 /\ ~meter.on
MethodChoices(h) == IF Mixed(h) THEN Methods ELSE {"POST"}
BodyChoices(h) == IF Mixed(h) THEN Bodies ELSE {Doc(DocA)}
ReadChoices(h) == IF Mixed(h) THEN BOOLEAN ELSE {TRUE}
SenderChoices(h) == IF meter.on THEN {[xff |-> <<>>, host |-> "c1"]} ELSE Senders

\* A key that leaves the client out.
rateKeyOf_NoClient(client, f) == <<"", f>>

\* rateKey{Client: client, API: f}
rateKeyOf(client, f) == <<client, f>>

\* A gate that takes every method.
Gated_All(method) == TRUE

\* Only POST requests are gated (r.Method != http.MethodPost goes through).
Gated(method) == method = "POST"

\* ------------------------------------------------ the middleware handler
\* The handler up to the body being read: a request that is not a POST goes
\* straight to next.ServeHTTP; a body that cannot be read (or is larger than
\* 1 MiB) is answered 400.
GateReceive(h) ==
  /\ reqs[h].st = "IDLE"
  /\ \E method \in MethodChoices(h), body \in BodyChoices(h), readable \in ReadChoices(h) :
       reqs' = [reqs EXCEPT ![h] =
         IF ~Gated(method)
         THEN [NoReq EXCEPT !.st = "BYPASSED", !.method = method, !.body = body,
                            !.served = 1, !.fwd = body]
         ELSE IF ~readable
         THEN [NoReq EXCEPT !.st = "BADREQUEST", !.method = method, !.code = 400]
         ELSE [NoReq EXCEPT !.st = "RECEIVED", !.method = method, !.body = body]]
  /\ UNCHANGED <<cfg, limiters, meter, ledgerVars>>

\* json.Unmarshal, extractAPIs, and the pass-through of a request in which
\* no field was found; client := clientKey(r) otherwise.
GateParse(h) ==
  /\ reqs[h].st = "RECEIVED"
  /\ LET x == extractAPIs(QueryOf(reqs[h].body)) IN
     IF Len(x.fields) = 0
     THEN reqs' = [reqs EXCEPT ![h].st = "ALLOWED", ![h].opType = x.opType,
                               ![h].served = @ + 1, ![h].fwd = reqs[h].body]
     ELSE \E r \in SenderChoices(h) :
            reqs' = [reqs EXCEPT ![h].st = "PARSED", ![h].opType = x.opType,
                                 ![h].fields = x.fields, ![h].client = clientKey(r),
                                 ![h].i = 1]
  /\ UNCHANGED <<cfg, limiters, meter, ledgerVars>>

\* What a measured stream records of one Allow(): granted since the last
\* second, or refused.
Metered(ok) ==
  IF ~meter.on THEN meter
  ELSE IF ok THEN [meter EXCEPT !.sinceTick = @ + 1]
  ELSE [meter EXCEPT !.refused = TRUE]

\* One turn of the loop over fields: the quota of the field, the bucket of
\* (client, field), Allow(); a refused field is appended to denied.
GateCheck(h) ==
  /\ reqs[h].st = "PARSED"
  /\ LET q == reqs[h]
         f == q.fields[q.i]
         k == rateKeyOf(q.client, f)
         l == limiterFor(k, quotaFor(f, q.opType))
     IN /\ limiters' = (k :> Taken(l)) @@ limiters
        /\ reqs' = [reqs EXCEPT
                      ![h].denied = IF Allow(l) THEN @ ELSE Append(@, f),
                      ![h].i = @ + 1,
                      ![h].st = IF q.i = Len(q.fields) THEN "CHECKED" ELSE "PARSED"]
        /\ meter' = Metered(Allow(l))
  /\ UNCHANGED <<cfg, ledgerVars>>

\* A decision that lets a request through when one of its fields passed.
GateDecide_Partial(h) ==
  /\ reqs[h].st = "CHECKED"
  /\ reqs' = [reqs EXCEPT ![h] =
       IF Len(@.denied) = Len(@.fields)
       THEN [@ EXCEPT !.st = "DENIED", !.code = 429]
       ELSE [@ EXCEPT !.st = "ALLOWED", !.served = @ + 1, !.fwd = reqs[h].body]]
  /\ UNCHANGED <<cfg, limiters, meter, ledgerVars>>

\* A decision that runs the downstream handler before it answers 429.
GateDecide_ServeThenDeny(h) ==
  /\ reqs[h].st = "CHECKED"
  /\ reqs' = [reqs EXCEPT ![h] =
       IF Len(@.denied) > 0
       THEN [@ EXCEPT !.st = "DENIED", !.code = 429, !.served = @ + 1]
       ELSE [@ EXCEPT !.st = "ALLOWED", !.served = @ + 1, !.fwd = reqs[h].body]]
  /\ UNCHANGED <<cfg, limiters, meter, ledgerVars>>

\* A decision that, on a denial, gives the granted fields their token back.
GateDecide_Refund(h) ==
  /\ reqs[h].st = "CHECKED"
  /\ reqs' = [reqs EXCEPT ![h] =
       IF Len(@.denied) > 0
       THEN [@ EXCEPT !.st = "DENIED", !.code = 429]
       ELSE [@ EXCEPT !.st = "ALLOWED", !.served = @ + 1, !.fwd = reqs[h].body]]
  /\ limiters' =
       [k \in DOMAIN limiters |->
          IF /\ Len(reqs[h].denied) > 0
             /\ k[1] = reqs[h].client
             /\ \E j \in 1..Len(reqs[h].fields) : reqs[h].fields[j] = k[2]
             /\ \A j \in 1..Len(reqs[h].denied) : reqs[h].denied[j] # k[2]
             /\ limiters[k].tokens + 60 <= limiters[k].burst * 60
          THEN [limiters[k] EXCEPT !.tokens = @ + 60]
          ELSE limiters[k]]
  /\ UNCHANGED <<cfg, meter, ledgerVars>>

\* After the loop: 429 with deniedAPIs when a field was refused, else
\* next.ServeHTTP with the body that was read.
GateDecide(h) ==
  /\ reqs[h].st = "CHECKED"
  /\ reqs' = [reqs EXCEPT ![h] =
       IF Len(@.denied) > 0
       THEN [@ EXCEPT !.st = "DENIED", !.code = 429]
       ELSE [@ EXCEPT !.st = "ALLOWED", !.served = @ + 1, !.fwd = reqs[h].body]]
  /\ UNCHANGED <<cfg, limiters, meter, ledgerVars>>

\* The handler has returned; the goroutine takes the next request.
GateDone(h) ==
  /\ reqs[h].st \in {"BYPASSED", "BADREQUEST", "ALLOWED", "DENIED"}
  /\ reqs' = [reqs EXCEPT ![h] = NoReq]
  /\ UNCHANGED <<cfg, limiters, meter, ledgerVars>>

\* A second passes: every bucket refills by its rate.  A measured stream
\* counts the seconds, up to MaxTime.
GateTick ==
  /\ meter.on => meter.ticks < MaxTime
  /\ limiters' = [k \in DOMAIN limiters |-> Refilled(limiters[k])]
  /\ meter' = IF meter.on
              THEN [meter EXCEPT !.ticks = @ + 1, !.sinceTick = 0, !.refused = FALSE]
              ELSE meter
  /\ UNCHANGED <<cfg, reqs, ledgerVars>>

\* The quotas of the mixed traffic: the per-minute rates main passes (query
\* default, mutation default, one override) with small bursts.
NoOverrides == [f \in {} |-> RateCfg(0, 0)]
GateCfg ==
  [defaultQuery |-> RateCfg(60, 2),
   defaultMutation |-> RateCfg(20, 1),
   apiOverrides |-> (<<"c">> :> RateCfg(30, 1))]

NoMeter == [on |-> FALSE, ticks |-> 0, sinceTick |-> 0, refused |-> FALSE, made |-> 0]

\* The middleware takes no request.
GateOff ==
  /\ cfg = GateCfg
  /\ limiters = NoLimiters
  /\ reqs = [h \in Handlers |-> [NoReq EXCEPT !.st = "OFF"]]
  /\ meter = NoMeter

\* The ledger runs no call.
LedgerOff ==
  /\ db = [i \in Ids |-> NoRow]
  /\ lock = [i \in Ids |-> None]
  /\ txw = [p \in Procs |-> NoTx]
  /\ pc = [p \in Procs |-> "off"]
  /\ args = [p \in Procs |-> NoArgs]
  /\ loc = [p \in Procs |-> NoLoc]
  /\ ret = [p \in Procs |-> NoRet]
  /\ sent = [p \in Procs |-> <<>>]
  /\ delta = [p \in Procs |-> NoDelta]
  /\ clock = 1
  /\ notifier = "nil"
  /\ watch = {}
  /\ script = 0

\* ------------------------------------------------------- specifications
\* Rows the table can hold at start: none for the id, or an account that was
\* created with a balance and never touched since.
InitRows == {NoRow} \cup {Account(c, 0, 0) : c \in 0..MaxInitial}

\* Two workers, each about to run one call of any operation with any
\* arguments; the first worker's call is the observed one.
Init ==
  /\ db \in [Ids -> InitRows]
  /\ lock = [i \in Ids |-> None]
  /\ txw = [p \in Procs |-> NoTx]
  /\ pc = [p \in Procs |-> IF p <= 2 THEN "idle" ELSE "off"]
  /\ args = [p \in Procs |-> NoArgs]
  /\ loc = [p \in Procs |-> NoLoc]
  /\ ret = [p \in Procs |-> NoRet]
  /\ sent = [p \in Procs |-> <<>>]
  /\ delta = [p \in Procs |-> NoDelta]
  /\ clock = 1
  /\ notifier \in {"set", "nil"}
  /\ watch = {1}
  /\ script = 0
  /\ GateOff

Next ==
  \E p \in Procs :
    \/ CallUse(p)
    \/ UseSelect(p)
    \/ UseUpdate(p)
    \/ UseCommit(p)
    \/ UseFinish(p)
    \/ UseFail(p)
    \/ CallTransfer(p)
    \/ TransferSelect(p)
    \/ TransferDebit(p)
    \/ TransferCredit(p)
    \/ TransferCommit(p)
    \/ TransferReadFrom(p)
    \/ TransferFinish(p)
    \/ TransferFail(p)
    \/ CallRecharge(p)
    \/ RechargeUpdate(p)
    \/ RechargeFinish(p)
    \/ RechargeFail(p)
    \/ CallBatchRecharge(p)
    \/ BatchRechargeExec(p)
    \/ BatchRechargeFinish(p)
    \/ BatchRechargeFail(p)
    \/ CallSetCoinsExact(p)
    \/ SetCoinsExactRead(p)
    \/ SetCoinsExactReadFail(p)
    \/ SetCoinsExactUpdate(p)
    \/ SetCoinsExactFinish(p)
    \/ SetCoinsExactFail(p)
    \/ CallTouchUsage(p)
    \/ TouchUsageUpdate(p)
    \/ TouchUsageFinish(p)
    \/ TouchUsageFail(p)
    \/ CallCreateAccount(p)
    \/ CreateAccountInsert(p)
    \/ CreateAccountFinish(p)
    \/ CreateAccountFail(p)
    \/ CallDeleteAccount(p)
    \/ DeleteAccountExec(p)
    \/ DeleteAccountFail(p)

Spec == Init /\ [][Next]_vars

\* N concurrent Use(u1, k) calls on one account of balance B, all of them
\* observed, with no other writer and no failing statement.
UseArgs(k) ==
  [NoArgs EXCEPT !.op = "use", !.id = "u1", !.amount = k, !.userID = "a1"]

InitUse ==
  \E N \in 1..NumProcs, B \in 0..MaxBalance, k \in 1..MaxK :
    /\ db = [i \in Ids |-> IF i = "u1" THEN Account(B, 0, 0) ELSE NoRow]
    /\ lock = [i \in Ids |-> None]
    /\ txw = [p \in Procs |-> NoTx]
    /\ pc = [p \in Procs |-> IF p <= N THEN "use_select" ELSE "off"]
    /\ args = [p \in Procs |-> IF p <= N THEN UseArgs(k) ELSE NoArgs]
    /\ loc = [p \in Procs |-> NoLoc]
    /\ ret = [p \in Procs |-> NoRet]
    /\ sent = [p \in Procs |-> <<>>]
    /\ delta = [p \in Procs |-> NoDelta]
    /\ clock = 1
    /\ notifier \in {"set", "nil"}
    /\ watch = Procs
    /\ script = 0
  /\ GateOff

NextUse ==
  \E p \in Procs :
    \/ UseSelect(p)
    \/ UseUpdate(p)
    \/ UseCommit(p)
    \/ UseFinish(p)

SpecUse == InitUse /\ [][NextUse]_vars

\* The middleware under mixed traffic: two handler goroutines, any method,
\* body and sender, seconds passing at any moment.
InitGate ==
  /\ LedgerOff
  /\ cfg = GateCfg
  /\ limiters = NoLimiters
  /\ reqs = [h \in Handlers |-> NoReq]
  /\ meter = NoMeter

NextGate ==
  \/ \E h \in Handlers :
       \/ GateReceive(h)
       \/ GateParse(h)
       \/ GateCheck(h)
       \/ GateDecide(h)
       \/ GateDone(h)
  \/ GateTick

SpecGate == InitGate /\ [][NextGate]_vars

\* One stream of POST {a} requests of one client, measured, under a quota of
\* any burst up to MaxBurst.
RatesPerMinute == {20, 60}
BurstCfgs ==
  {[defaultQuery |-> RateCfg(pm, b), defaultMutation |-> RateCfg(pm, b),
    apiOverrides |-> NoOverrides] : pm \in RatesPerMinute, b \in 1..MaxBurst}

InitBurst ==
  /\ LedgerOff
  /\ cfg \in BurstCfgs
  /\ limiters = NoLimiters
  /\ reqs = [h \in Handlers |-> NoReq]
  /\ meter = [NoMeter EXCEPT !.on = TRUE]

SpecBurst == InitBurst /\ [][NextGate]_vars

\* extractAPIs applied to one document: the example of the specification,
\* documents with arguments and sub-selections, and every string of up to
\* MaxDocLen characters of ExtractChars.
ExampleDoc ==
  Mutation \o <<"{", " ", "a", "(", "x", ":", "1", ")", "{", "y", "}", " ",
                "b", ":", "c", " ", "}">>
ExtractChars == {"{", "}", "(", ")", ":", " ", "a", "b"}
ShortDocs == UNION {[1..n -> ExtractChars] : n \in 0..MaxDocLen}
ExtractDocs == ShortDocs \cup GateDocs \cup {ExampleDoc}

InitExtract ==
  /\ LedgerOff
  /\ cfg = GateCfg
  /\ limiters = NoLimiters
  /\ \E q \in ExtractDocs :
       reqs = [h \in Handlers |->
                 IF h = 1 THEN [NoReq EXCEPT !.st = "RECEIVED", !.method = "POST",
                                             !.body = Doc(q)]
                 ELSE [NoReq EXCEPT !.st = "OFF"]]
  /\ meter = NoMeter

NextExtract == \E h \in Handlers : GateParse(h)

SpecExtract == InitExtract /\ [][NextExtract]_vars

\* Two CreateAccount calls for the same id with different initial balances,
\* run in any interleaving (one after the other included), on a table that
\* may or may not hold the row already.
CreateArgs(id, initial) == [NoArgs EXCEPT !.op = "create", !.id = id, !.amount = initial]

InitCreate ==
  \E id \in Ids, c1 \in Amounts, c2 \in Amounts :
    /\ c1 # c2
    /\ db \in [Ids -> InitRows]
    /\ lock = [i \in Ids |-> None]
    /\ txw = [p \in Procs |-> NoTx]
    /\ pc = [p \in Procs |-> IF p <= 2 THEN "cr_insert" ELSE "off"]
    /\ args = [p \in Procs |-> IF p = 1 THEN CreateArgs(id, c1)
                               ELSE IF p = 2 THEN CreateArgs(id, c2) ELSE NoArgs]
    /\ loc = [p \in Procs |-> NoLoc]
    /\ ret = [p \in Procs |-> NoRet]
    /\ sent = [p \in Procs |-> <<>>]
    /\ delta = [p \in Procs |-> NoDelta]
    /\ clock = 1
    /\ notifier \in {"set", "nil"}
    /\ watch = Procs
    /\ script = 0
  /\ GateOff

NextCreate ==
  \E p \in Procs :
    \/ CreateAccountInsert(p)
    \/ CreateAccountFinish(p)
    \/ CreateAccountFail(p)

SpecCreate == InitCreate /\ [][NextCreate]_vars

\* The mutations of TestGraphQL_AllAPIs, in order, on the truncated table:
\* createUser u1 100, createUser u2 50, rechargeCoins u2 25, useCoins u1 10,
\* transferCoins 40 from u1 to u2, batchRecharge [u1, u2] 5, setCoins u2 7.
Step(op, id, to, ids, amount) ==
  [NoArgs EXCEPT !.op = op, !.id = id, !.to = to, !.ids = ids, !.amount = amount]

Scenario ==
  << Step("create", "u1", "", <<>>, 100),
     Step("create", "u2", "", <<>>, 50),
     Step("recharge", "u2", "", <<>>, 25),
     Step("use", "u1", "", <<>>, 10),
     Step("transfer", "u1", "u2", <<>>, 40),
     Step("batch", "", "", <<"u1", "u2">>, 5),
     Step("setexact", "u2", "", <<>>, 7) >>

\* The first statement of each operation, and the name its messages carry.
FirstOf(op) ==
  CASE op = "create" -> "cr_insert"
    [] op = "recharge" -> "re_update"
    [] op = "use" -> "use_select"
    [] op = "transfer" -> "tr_select"
    [] op = "batch" -> "ba_exec"
    [] op = "setexact" -> "se_read"

OpName(op) == IF op = "batch" THEN "batchRecharge" ELSE op

\* The argument checks of the operation.
ValidateStep(a, userID) ==
  CASE a.op = "create" -> NoErr
    [] a.op = "setexact" -> ValidateUser(userID)
    [] OTHER -> ValidateAmountUser(OpName(a.op), a.amount, userID)

\* The next mutation of the scenario is sent once the previous one has
\* returned, in the name of a well-formed actor id.
ScenarioCall(p) ==
  /\ pc[p] \in {"idle", "done"}
  /\ script < Len(Scenario)
  /\ script' = script + 1
  /\ LET a == Scenario[script + 1]
         e == ValidateStep(a, "a1")
     IN IF e # NoErr THEN Reject(p, a.op, e)
        ELSE Enter(p, IF a.op = "create" THEN a
                      ELSE [a EXCEPT !.userID = canonicalUUID("a1")],
                   FirstOf(a.op))
  /\ UNCHANGED <<db, lock, txw, clock, notifier, watch, gateVars>>

InitScenario ==
  /\ db = [i \in Ids |-> NoRow]
  /\ lock = [i \in Ids |-> None]
  /\ txw = [p \in Procs |-> NoTx]
  /\ pc = [p \in Procs |-> IF p = 1 THEN "idle" ELSE "off"]
  /\ args = [p \in Procs |-> NoArgs]
  /\ loc = [p \in Procs |-> NoLoc]
  /\ ret = [p \in Procs |-> NoRet]
  /\ sent = [p \in Procs |-> <<>>]
  /\ delta = [p \in Procs |-> NoDelta]
  /\ clock = 1
  /\ notifier \in {"set", "nil"}
  /\ watch = {1}
  /\ script = 0
  /\ GateOff

NextScenario ==
  \E p \in Procs :
    \/ ScenarioCall(p)
    \/ CreateAccountInsert(p)
    \/ CreateAccountFinish(p)
    \/ RechargeUpdate(p)
    \/ RechargeFinish(p)
    \/ UseSelect(p)
    \/ UseUpdate(p)
    \/ UseCommit(p)
    \/ UseFinish(p)
    \/ TransferSelect(p)
    \/ TransferDebit(p)
    \/ TransferCredit(p)
    \/ TransferCommit(p)
    \/ TransferReadFrom(p)
    \/ TransferFinish(p)
    \/ BatchRechargeExec(p)
    \/ BatchRechargeFinish(p)
    \/ SetCoinsExactRead(p)
    \/ SetCoinsExactUpdate(p)
    \/ SetCoinsExactFinish(p)

SpecScenario == InitScenario /\ [][NextScenario]_vars

\* One Deplete request with any id, amount and user_id, on any table.
RequestIds == Ids \cup {""}

InitDeplete ==
  \E id \in RequestIds, amount \in Amounts, userID \in UserInputs :
    /\ db \in [Ids -> InitRows]
    /\ lock = [i \in Ids |-> None]
    /\ txw = [p \in Procs |-> NoTx]
    /\ pc = [p \in Procs |-> IF p = 1 THEN "dp_check" ELSE "off"]
    /\ args = [p \in Procs |->
                 IF p = 1 THEN [NoArgs EXCEPT !.op = "deplete", !.id = id,
                                              !.amount = amount, !.userID = userID]
                 ELSE NoArgs]
    /\ loc = [p \in Procs |-> NoLoc]
    /\ ret = [p \in Procs |-> NoRet]
    /\ sent = [p \in Procs |-> <<>>]
    /\ delta = [p \in Procs |-> NoDelta]
    /\ clock = 1
    /\ notifier \in {"set", "nil"}
    /\ watch = {1}
    /\ script = 0
  /\ GateOff

NextDeplete ==
  \E p \in Procs :
    \/ CallDeplete(p)
    \/ UseSelect(p)
    \/ UseUpdate(p)
    \/ UseCommit(p)
    \/ UseFinish(p)
    \/ UseFail(p)
    \/ DepleteReply(p)

SpecDeplete == InitDeplete /\ [][NextDeplete]_vars

\* ------------------------------------------------------------ properties
\* The observed calls that returned.
Returned(p) == p \in watch /\ pc[p] = "done"

\* C1: every stored balance is non-negative in every reachable state, under
\* any interleaving of all the operations with any arguments.
C1_BalancesNonNegative == \A i \in Ids : db[i].present => db[i].coins >= 0

\* The balance change of a complete transfer of worker p's arguments.
TransferDelta(p) ==
  [i \in Ids |-> (IF i = args[p].to THEN args[p].amount ELSE 0)
                 - (IF i = args[p].id THEN args[p].amount ELSE 0)]

\* C2: whatever its outcome and whatever X and Y, Transfer(X, Y, a) changes
\* the committed balances by (X - a, Y + a) or not at all; X debited without
\* Y credited is never committed.
C2_TransferAllOrNothing ==
  \A p \in watch :
    args[p].op = "transfer" => delta[p] = NoDelta \/ delta[p] = TransferDelta(p)

\* The concurrent Use calls of SpecUse, those that succeeded, those refused.
Callers == {p \in Procs : pc[p] # "off"}
AllReturned == \A p \in Callers : pc[p] = "done"
Succeeded == {p \in Callers : pc[p] = "done" /\ ret[p].err = NoErr}
Refused == {p \in Callers : pc[p] = "done" /\ ret[p].err = ErrInsufficient("use")}
UseAmount == args[1].amount

\* The balance the account started with: what it holds plus what was debited.
RECURSIVE DebitedBy(_)
DebitedBy(n) == IF n = 0 THEN 0 ELSE DebitedBy(n - 1) - delta[n]["u1"]
StartBalance == db["u1"].coins + DebitedBy(NumProcs)

Min(a, b) == IF a <= b THEN a ELSE b

PastCheck == {"use_update", "use_commit", "tr_debit", "tr_credit", "tr_commit"}

\* C4: Use and Transfer decide sufficiency on the balance read under the row
\* lock of the same transaction: from the check to the commit the worker holds
\* the lock of the source row, the committed balance is still the one it read
\* and covers the amount, no other worker is past the check on that row, and
\* the version it will commit is that balance minus the amount, never below 0.
C4_CheckUnderLock ==
  \A p \in Procs :
    pc[p] \in PastCheck =>
      LET id == args[p].id
          a == args[p].amount
          w == txw[p][id]
          back == IF pc[p] = "tr_commit" /\ args[p].to = id THEN a ELSE 0
      IN /\ lock[id] = p
         /\ db[id].present
         /\ db[id].coins = loc[p].coins
         /\ loc[p].coins >= a
         /\ \A q \in Procs \ {p} : pc[q] \in PastCheck => args[q].id # id
         /\ pc[p] \in {"use_update", "tr_debit"} => ~w.dirty
         /\ pc[p] \in {"use_commit", "tr_credit", "tr_commit"} =>
              /\ w.dirty
              /\ w.row.coins = loc[p].coins - a + back
              /\ w.row.coins >= 0

C4_Witness ==
  /\ pc[1] = "use_commit"
  /\ pc[2] \in {"use_select", "tr_select"}
  /\ args[2].id = args[1].id

\* C5: a Use whose amount exceeds the balance it reads returns the
\* insufficient-balance error, which Deplete reports as FailedPrecondition,
\* changes no row (balance and both timestamps) and sends no notification;
\* only a failure of the statement itself makes it return another error.
C5_InsufficientUse ==
  [][\A p \in watch :
       (/\ pc[p] = "use_select"
        /\ pc'[p] # pc[p]
        /\ db[args[p].id].present
        /\ args[p].amount > db[args[p].id].coins)
       => /\ pc'[p] = "done"
          /\ db' = db
          /\ sent'[p] = <<>>
          /\ \/ ret'[p].err = ErrDB
             \/ /\ ret'[p].err = ErrInsufficient("use")
                /\ DepleteCode(ret'[p].err) = "FailedPrecondition"]_vars

C5_Witness ==
  /\ Returned(1)
  /\ args[1].op = "use"
  /\ ret[1].err = ErrInsufficient("use")
  /\ db[args[1].id].present
  /\ db[args[1].id].coins < args[1].amount
  /\ pc[2] = "idle"

Mutations == {"recharge", "batch", "use", "transfer", "setexact"}

\* C6: a mutation that returns an error leaves every account unchanged: it
\* never returns an error while the balance change it made persists.
C6_ErrorMeansUnchanged ==
  \A p \in watch :
    (Returned(p) /\ args[p].op \in Mutations /\ ret[p].err # NoErr)
      => delta[p] = NoDelta

\* Positions of Use and Transfer before the commit has happened, and the
\* positions their commit leads to.
PreCommit == {"use_select", "use_update", "use_commit",
              "tr_select", "tr_debit", "tr_credit", "tr_commit"}
PostCommit == {"use_readback", "tr_readfrom"}

\* C7: a Use or Transfer that ends before its commit (a failing statement, an
\* expired deadline, a refused check) is rolled back: no step before the
\* commit changes a committed row (balance or timestamp), and on return the
\* pending versions are gone and the worker holds no row lock.
C7_FailureRollsBack ==
  [][\A p \in Procs :
       (pc[p] \in PreCommit /\ pc'[p] # pc[p] /\ pc'[p] \notin PostCommit)
       => /\ db' = db
          /\ pc'[p] \in PreCommit \cup {"done"}
          /\ pc'[p] = "done" =>
               /\ txw'[p] = NoTx
               /\ \A i \in Ids : lock'[i] # p]_vars

\* The observed Use failed after its debit statement ran (the clock moved)
\* while nobody else was running, and committed nothing.
C7_Witness ==
  /\ Returned(1)
  /\ args[1].op = "use"
  /\ ret[1].err = ErrDB
  /\ delta[1] = NoDelta
  /\ pc[2] = "idle"
  /\ clock = 2
  /\ \A i \in Ids : lock[i] = None

\* The notifications of s that failed.
FailedNotes(s) == {k \in 1..Len(s) : ~s[k].ok}

\* What an operation at its closing statements returns whatever the notifier
\* does: nil, or the nil-account panic of the log line when the read-back
\* found no row.
ClosingErr(p) ==
  IF args[p].op \in {"transfer", "batch"} \/ db[args[p].id].present
  THEN NoErr ELSE ErrPanic

\* C8: a notifier failure never fails or undoes the ledger operation: the
\* step in which Notifier.Create fails changes no row and no committed
\* change, and the operation returns what it returns with a working notifier.
C8_NotifierFailureHarmless ==
  [][\A p \in watch :
       (Len(sent'[p]) > Len(sent[p]) /\ FailedNotes(sent'[p]) # {})
       => /\ db' = db
          /\ delta'[p] = delta[p]
          /\ pc'[p] = "done"
          /\ ret'[p].err = ClosingErr(p)]_vars

C8_Witness ==
  /\ Returned(1)
  /\ args[1].op = "use"
  /\ FailedNotes(sent[1]) # {}
  /\ ret[1].err = NoErr
  /\ ret[1].acc.present
  /\ delta[1][args[1].id] = 0 - args[1].amount
  /\ db[args[1].id].coins = ret[1].acc.coins

\* C9: with a notifier configured, every successful balance-changing Recharge,
\* Use or SetCoinsExact emits exactly one notification carrying the positive
\* amount of the change, and every successful Transfer exactly two, for the
\* source and the destination, with different event ids.
C9_OneNotificationPerChange ==
  \A p \in watch :
    (Returned(p) /\ notifier = "set" /\ ret[p].err = NoErr) =>
      /\ (args[p].op \in {"recharge", "use", "setexact"} /\ delta[p] # NoDelta) =>
           /\ Len(sent[p]) = 1
           /\ sent[p][1].coinID = args[p].id
           /\ sent[p][1].coinUsed = Abs(delta[p][args[p].id])
           /\ sent[p][1].coinUsed > 0
      /\ args[p].op = "transfer" =>
           /\ Len(sent[p]) = 2
           /\ sent[p][1].coinID = args[p].id
           /\ sent[p][2].coinID = args[p].to
           /\ sent[p][1].coinUsed = args[p].amount
           /\ sent[p][2].coinUsed = args[p].amount
           /\ sent[p][1].dataID # sent[p][2].dataID

\* C10: the notification of a committed mutation runs under a deadline of its
\* own: no Notifier.Create call is made under the mutation's expired deadline,
\* and a mutation whose deadline expires after the commit still notifies.
C10_FreshDeadline ==
  \A p \in watch :
    /\ \A k \in 1..Len(sent[p]) : ~sent[p][k].expired
    /\ (Returned(p) /\ notifier = "set" /\ args[p].op \in {"recharge", "use"}
          /\ delta[p] # NoDelta /\ db[args[p].id].present)
         => Len(sent[p]) >= 1

\* ------------------------------------------------- rate-limit properties
\* The bucket the measured stream of SpecBurst draws from.
MeasuredKey == <<"c1", <<"a">>>>

\* C11: from a fresh bucket of burst b, with no time passing, the first b
\* requests are admitted and the next one is refused (at most b admitted
\* while no time passes); at 60 per minute, after a second has passed at
\* least one more request is admitted before any is refused.
C11_Burst ==
  LET b == cfg.defaultQuery.Burst IN
  meter.on =>
    /\ meter.sinceTick <= b
    /\ meter.ticks = 0 =>
         /\ MeasuredKey \in DOMAIN limiters =>
              limiters[MeasuredKey].tokens = (b - meter.sinceTick) * 60
         /\ MeasuredKey \notin DOMAIN limiters => meter.sinceTick = 0
         /\ meter.refused => meter.sinceTick = b
    /\ (meter.ticks >= 1 /\ cfg.defaultQuery.PerMinute >= 60 /\ meter.refused)
         => meter.sinceTick >= 1

\* Five admitted at once from a bucket of five at 60 per minute, one more a
\* second later, and the one after that refused.
C11_Witness ==
  /\ meter.on
  /\ cfg.defaultQuery = RateCfg(60, 5)
  /\ meter.ticks = 1
  /\ meter.sinceTick = 1
  /\ meter.refused
  /\ limiters[MeasuredKey].tokens = 0

\* C12: a field is denied exactly when its bucket holds no token; a request
\* with a denied field is answered 429 with the denied fields and the
\* downstream handler is not run for it.
C12_DeniedIffEmpty ==
  [][\A h \in Handlers :
       LET q == reqs[h]
           k == <<q.client, q.fields[q.i]>>
           empty == k \in DOMAIN limiters /\ limiters[k].tokens < 60
       IN /\ (q.st = "PARSED" /\ reqs'[h] # q) =>
               /\ reqs'[h].denied = IF empty THEN Append(q.denied, q.fields[q.i])
                                    ELSE q.denied
               /\ reqs'[h].served = 0
          /\ (q.st = "CHECKED" /\ reqs'[h] # q) =>
               /\ reqs'[h].denied = q.denied
               /\ IF q.denied # <<>>
                  THEN /\ reqs'[h].st = "DENIED"
                       /\ reqs'[h].code = 429
                       /\ reqs'[h].served = 0
                  ELSE reqs'[h].st = "ALLOWED"
          /\ (q.st = "DENIED" /\ reqs'[h] # q) => reqs'[h] = NoReq]_vars

\* A two-field request refused for its second field only.
C12_Witness ==
  \E h \in Handlers :
    /\ reqs[h].st = "DENIED"
    /\ reqs[h].fields = << <<"a">>, <<"c">> >>
    /\ reqs[h].denied = << <<"c">> >>
    /\ reqs[h].served = 0

\* C13: extractAPIs reports the operation type of the leading keyword and the
\* top-level field names only, without argument text: the document
\* mutation{ a(x:1){y} b:c } yields a mutation with the fields a and c.
C13_ExtractExample ==
  \A h \in Handlers :
    (reqs[h].st = "PARSED" /\ reqs[h].body = Doc(ExampleDoc)) =>
      /\ reqs[h].opType = "mutation"
      /\ reqs[h].fields = << <<"a">>, <<"c">> >>

\* How many times name f stands in the list s.
Occurrences(f, s) == Cardinality({i \in 1..Len(s) : s[i] = f})

\* C14: an admitted request has taken, for each of its top-level fields, as
\* many tokens as the document invokes the field (one Allow() per occurrence).
C14_TokenPerOccurrence ==
  \A h \in Handlers :
    (reqs[h].st = "ALLOWED" /\ reqs[h].fields # <<>>) =>
      \A i \in 1..Len(reqs[h].fields) :
        Occurrences(reqs[h].fields[i], reqs[h].fields)
          = Occurrences(reqs[h].fields[i], scanned(QueryOf(reqs[h].body)))

\* C15: the bucket a field is checked against has the burst and the rate of
\* the field's quota: its override, else the default of the document's
\* operation type.
C15_QuotaApplied ==
  [][\A h \in Handlers :
       LET q == reqs[h]
           f == q.fields[q.i]
           k == <<q.client, f>>
           c == IF f \in DOMAIN cfg.apiOverrides THEN cfg.apiOverrides[f]
                ELSE IF q.opType = "mutation" THEN cfg.defaultMutation
                ELSE cfg.defaultQuery
       IN (q.st = "PARSED" /\ reqs'[h] # q) =>
            /\ limiters'[k].burst = c.Burst
            /\ limiters'[k].perMinute = c.PerMinute]_vars

\* C16: a request of client A changes only the buckets (A, f) of the fields f
\* it names, and whether f is refused depends on that bucket alone; steps
\* other than a bucket check and the passing of time change no bucket.
C16_BucketsIndependent ==
  [][\A h \in Handlers :
       LET q == reqs[h]
           k == <<q.client, q.fields[q.i]>>
       IN (reqs'[h] # q) =>
            IF q.st = "PARSED"
            THEN /\ DOMAIN limiters' = DOMAIN limiters \cup {k}
                 /\ \A j \in DOMAIN limiters : j # k => limiters'[j] = limiters[j]
                 /\ reqs'[h].denied # q.denied =>
                      (k \in DOMAIN limiters /\ limiters[k].tokens < 60)
            ELSE limiters' = limiters]_vars

\* Client c1 has used up its bucket for field a, and a request of client c2
\* for the same field is let through.
C16_Witness ==
  /\ <<"c1", <<"a">>>> \in DOMAIN limiters
  /\ limiters[<<"c1", <<"a">>>>].tokens < 60
  /\ \E h \in Handlers :
       /\ reqs[h].st = "ALLOWED"
       /\ reqs[h].client = "c2"
       /\ reqs[h].fields = << <<"a">> >>

\* The bodies that name no top-level field: not JSON, no query, a query
\* without a brace block, a block without fields.
NamesNoField(body) ==
  \/ body.kind # "doc"
  \/ Index(Normalised(body.query), "{") = 0
  \/ extractAPIs(body.query).fields = <<>>

\* C17: a POST whose body names no top-level field is forwarded with its
\* body; no bucket is created and no token is taken.
C17_FailOpen ==
  [][\A h \in Handlers :
       (reqs[h].st = "RECEIVED" /\ reqs'[h] # reqs[h] /\ NamesNoField(reqs[h].body)) =>
         /\ reqs'[h].st = "ALLOWED"
         /\ reqs'[h].served = 1
         /\ reqs'[h].fwd = reqs[h].body
         /\ limiters' = limiters]_vars

\* A body that is not JSON is let through while a bucket is exhausted.
C17_Witness ==
  /\ \E k \in DOMAIN limiters : limiters[k].tokens < 60
  /\ \E h \in Handlers :
       /\ reqs[h].st = "ALLOWED"
       /\ reqs[h].body = BadJSON
       /\ reqs[h].served = 1

\* C18: a request whose method is not POST is forwarded at once with its
\* body, and the bucket table stays as it is.
C18_NonPostBypass ==
  [][\A h \in Handlers :
       /\ (reqs[h].st = "IDLE" /\ reqs'[h] # reqs[h] /\ reqs'[h].method # "POST") =>
            /\ reqs'[h].st = "BYPASSED"
            /\ reqs'[h].served = 1
            /\ reqs'[h].fwd = reqs'[h].body
            /\ limiters' = limiters
       /\ (reqs[h].st = "BYPASSED" /\ reqs'[h] # reqs[h]) =>
            /\ reqs'[h] = NoReq
            /\ limiters' = limiters]_vars

\* A GET is forwarded while every bucket there is holds no token.
C18_Witness ==
  /\ DOMAIN limiters # {}
  /\ \A k \in DOMAIN limiters : limiters[k].tokens < 60
  /\ \E h \in Handlers :
       /\ reqs[h].st = "BYPASSED"
       /\ reqs[h].method = "GET"
       /\ reqs[h].served = 1

\* C19 as stated: every POST the middleware takes goes RECEIVED, PARSED,
\* CHECKED and ends ALLOWED or DENIED, the downstream handler having run
\* exactly when it ends ALLOWED.
C19_AllowedOrDenied ==
  \A h \in Handlers :
    reqs[h].method = "POST" =>
      /\ reqs[h].st \in {"RECEIVED", "PARSED", "CHECKED", "ALLOWED", "DENIED"}
      /\ reqs[h].served = (IF reqs[h].st = "ALLOWED" THEN 1 ELSE 0)

\* The steps a request takes.
PathSteps ==
  {<<"IDLE", "RECEIVED">>, <<"IDLE", "BADREQUEST">>, <<"IDLE", "BYPASSED">>,
   <<"RECEIVED", "PARSED">>, <<"RECEIVED", "ALLOWED">>,
   <<"PARSED", "PARSED">>, <<"PARSED", "CHECKED">>,
   <<"CHECKED", "ALLOWED">>, <<"CHECKED", "DENIED">>,
   <<"ALLOWED", "IDLE">>, <<"DENIED", "IDLE">>,
   <<"BADREQUEST", "IDLE">>, <<"BYPASSED", "IDLE">>}

\* C19: a POST whose body is read goes RECEIVED, then PARSED and CHECKED when
\* it names a field, and ends ALLOWED or DENIED; a POST whose body cannot be
\* read ends with a 400.  The downstream handler runs exactly once, with the
\* body as received, for a request that ends ALLOWED, and never for one that
\* ends DENIED or with a 400.
C19_RequestPath ==
  [][\A h \in Handlers :
       (reqs'[h] # reqs[h]) =>
         /\ <<reqs[h].st, reqs'[h].st>> \in PathSteps
         /\ reqs'[h].st = "BADREQUEST" =>
              reqs'[h].method = "POST" /\ reqs'[h].body = NoBody /\ reqs'[h].code = 400
         /\ reqs'[h].st \in {"RECEIVED", "PARSED", "CHECKED"} =>
              reqs'[h].method = "POST" /\ reqs'[h].body # NoBody
         /\ (reqs[h].st = "RECEIVED" /\ reqs'[h].st = "ALLOWED") =>
              NamesNoField(reqs[h].body)
         /\ reqs'[h].st = "PARSED" => reqs'[h].fields # <<>>
         /\ reqs'[h].served =
              (IF reqs'[h].st \in {"ALLOWED", "BYPASSED"} THEN 1 ELSE 0)
         /\ reqs'[h].st = "ALLOWED" =>
              reqs'[h].fwd = reqs[h].body /\ reqs'[h].denied = <<>>
         /\ reqs'[h].st = "DENIED" => reqs'[h].denied # <<>>]_vars

\* A request that named two fields, had both checked, and was forwarded once
\* with its body.
C19_Witness ==
  \E h \in Handlers :
    /\ reqs[h].st = "ALLOWED"
    /\ Len(reqs[h].fields) = 2
    /\ reqs[h].i = 3
    /\ reqs[h].served = 1
    /\ reqs[h].fwd = reqs[h].body

\* C20: of two CreateAccount calls for one id with different initial
\* balances, in any interleaving, only an insert that finds no row writes,
\* and it writes its own initial balance; a row that exists is never changed;
\* a call that returns without error returns the row as it stands, so two
\* such calls return the same row.
C20_CreateIdempotent ==
  [][/\ \A i \in Ids : db[i].present => db'[i] = db[i]
     /\ \A p \in Procs :
          LET id == args[p].id IN
          /\ (pc[p] = "cr_insert" /\ pc'[p] = "cr_readback" /\ ~db[id].present) =>
               db' = [db EXCEPT ![id] = Account(args[p].amount, 0, 0)]
          /\ (pc[p] = "cr_readback" /\ pc'[p] = "done" /\ ret'[p].err = NoErr) =>
               /\ db' = db
               /\ db[id].present
               /\ ret'[p].acc = db[id]
     /\ (\A p \in 1..2 : pc'[p] = "done" /\ ret'[p].err = NoErr) =>
          /\ ret'[1].acc = ret'[2].acc
          /\ ret'[1].acc = db'[args[1].id]]_vars

\* Both calls have returned the row that the second call inserted with its
\* balance 1, the first call, with balance 0, having come later.
C20_Witness ==
  /\ \A p \in 1..2 : pc[p] = "done" /\ ret[p].err = NoErr /\ args[p].op = "create"
  /\ args[1].amount = 0 /\ args[2].amount = 1
  /\ delta[2][args[2].id] = 1
  /\ delta[1] = NoDelta
  /\ ret[1].acc = Account(1, 0, 0)
  /\ ret[2].acc = Account(1, 0, 0)
  /\ db[args[1].id] = Account(1, 0, 0)

\* ------------------------------------------------------ ledger operations
\* C21: SetCoinsExact on an existing account leaves the balance equal to the
\* target; with a notifier configured, a call that returns without error has
\* emitted one notification carrying |target - previous balance| when it
\* changed the balance, and none when it did not.
C21_SetExactNotifies ==
  [][\A p \in watch :
       LET id == args[p].id IN
       /\ (pc[p] = "se_update" /\ pc'[p] = "se_readback" /\ db[id].present) =>
            db'[id].coins = args[p].amount
       /\ (pc[p] = "se_readback" /\ pc'[p] = "done" /\ ret'[p].err = NoErr
             /\ notifier = "set") =>
            IF delta[p][id] # 0
            THEN /\ Len(sent'[p]) = 1
                 /\ sent'[p][1].coinID = id
                 /\ sent'[p][1].coinUsed = Abs(delta[p][id])
            ELSE sent'[p] = <<>>]_vars

\* C25: a step that raises the stored balance of an account stamps its
\* last_recharge_date with a later time, and a step that lowers it stamps its
\* last_usage_date with a later time.
C25_StampsFollowBalance ==
  [][\A i \in Ids :
       (db[i].present /\ db'[i].present) =>
         /\ db'[i].coins > db[i].coins => db'[i].lr > db[i].lr
         /\ db'[i].coins < db[i].coins => db'[i].lu > db[i].lu]_vars

\* The sum of the balance changes a call committed.
NetChange(p) == delta[p]["u1"] + delta[p]["u2"]

\* C30: a committed Transfer leaves the sum of all balances unchanged,
\* whatever fromID and toID are.
C30_TransferConserves ==
  \A p \in watch : args[p].op = "transfer" => NetChange(p) = 0

\* The operations that check amount and userID before anything else.
Checked == {"recharge", "batch", "use", "transfer"}

\* The first statement of each of them.
FirstStatement == {"re_update", "ba_exec", "use_select", "tr_select"}

\* C22: Recharge, BatchRecharge, Use and Transfer reach their first statement
\* only with an amount > 0 and a well-formed userID; a call that is refused
\* returns an error at once, and no row, timestamp, lock, pending write or
\* notification changes with it.
C22_RejectBeforeStore ==
  [][\A p \in Procs :
       /\ (pc[p] = "idle" /\ pc'[p] \in FirstStatement) =>
            /\ args'[p].op \in Checked
            /\ args'[p].amount > 0
            /\ UUIDParseOK(args'[p].userID)
            /\ UNCHANGED <<db, lock, txw, sent, clock>>
       /\ (pc[p] = "idle" /\ pc'[p] = "done") =>
            /\ UNCHANGED <<db, lock, txw, sent, clock, delta>>
            /\ p \in watch => ret'[p].err # NoErr]_vars

\* A Transfer refused for its amount while the other worker holds a row lock
\* in an open transaction.
C22_Witness ==
  /\ Returned(1)
  /\ args[1].op = "transfer"
  /\ ret[1].err = ErrAmount("transfer")
  /\ sent[1] = <<>>
  /\ delta[1] = NoDelta
  /\ \E i \in Ids : lock[i] = 2

\* C24: the one statement of BatchRecharge adds the amount to every existing
\* row named in coinIDs and to no other, in a single step, and the call
\* returns their number; a call that fails has changed no row.
C24_BatchAtomic ==
  [][\A p \in Procs :
       LET a == args[p]
           T == {i \in Ids : db[i].present /\ \E k \in 1..Len(a.ids) : a.ids[k] = i}
       IN /\ (pc[p] = "ba_exec" /\ pc'[p] = "ba_notify") =>
               /\ \A i \in Ids :
                    db'[i] = IF i \in T
                             THEN [db[i] EXCEPT !.coins = @ + a.amount, !.lr = clock]
                             ELSE db[i]
               /\ loc'[p].rows = Cardinality(T)
          /\ (pc[p] = "ba_exec" /\ pc'[p] = "done") => db' = db
          /\ (pc[p] = "ba_notify" /\ pc'[p] # "ba_notify") =>
               /\ db' = db
               /\ pc'[p] = "done"
               /\ p \in watch => ret'[p].rows = loc[p].rows /\ ret'[p].err = NoErr]_vars

\* A BatchRecharge of both accounts returned 2 and both rows carry the
\* increment, stamped with the same time.
C24_Witness ==
  /\ Returned(1)
  /\ args[1].op = "batch"
  /\ args[1].ids = <<"u1", "u2">>
  /\ ret[1].rows = 2
  /\ delta[1] = [i \in Ids |-> args[1].amount]
  /\ db["u1"].lr = db["u2"].lr
  /\ db["u1"].lr > 0

\* C26: TouchUsage changes last_usage_date of the row it names and nothing
\* else of any row, and emits no notification.
C26_TouchFrame ==
  [][\A p \in Procs :
       LET id == args[p].id IN
       /\ (pc[p] = "to_update" /\ pc'[p] = "to_readback") =>
            /\ \A i \in Ids : i # id => db'[i] = db[i]
            /\ db'[id] = IF db[id].present THEN [db[id] EXCEPT !.lu = clock] ELSE db[id]
            /\ sent' = sent
       /\ (pc[p] \in {"to_update", "to_readback"} /\ pc'[p] = "done") =>
            /\ db' = db
            /\ sent' = sent]_vars

\* A TouchUsage returned the stamped row of an account that had been
\* recharged before, with a notifier configured and nothing sent.
C26_Witness ==
  /\ Returned(1)
  /\ args[1].op = "touch"
  /\ notifier = "set"
  /\ ret[1].acc.present
  /\ ret[1].acc.lu > ret[1].acc.lr
  /\ ret[1].acc.lr > 0
  /\ sent[1] = <<>>
  /\ delta[1] = NoDelta

\* The accounts an operation in progress names.
Touches(p) ==
  IF pc[p] \in {"idle", "done", "off"} THEN {}
  ELSE IF args[p].op = "transfer" THEN {args[p].id, args[p].to}
  ELSE IF args[p].op = "batch" THEN {args[p].ids[k] : k \in 1..Len(args[p].ids)}
  ELSE {args[p].id}

\* C27: a Use or Transfer whose accounts no other operation in progress
\* names is never waiting: the statement it is at can run.
C27_DisjointNeverBlock ==
  \A p \in Procs :
    (/\ pc[p] \in {"use_select", "use_update", "tr_select", "tr_debit", "tr_credit"}
     /\ \A q \in Procs \ {p} : Touches(q) \cap Touches(p) = {}) =>
      ENABLED (\/ UseSelect(p) \/ UseUpdate(p)
               \/ TransferSelect(p) \/ TransferDebit(p) \/ TransferCredit(p))

\* A Use of u1 is at its SELECT ... FOR UPDATE while a Transfer from u2 to u2
\* holds the lock of u2.
C27_Witness ==
  /\ pc[1] = "use_select"
  /\ args[1].id = "u1"
  /\ db["u1"].present
  /\ args[2].op = "transfer"
  /\ Touches(2) = {"u2"}
  /\ lock["u2"] = 2

\* The operations that need the account to exist.
NeedsAccount == {"recharge", "use", "transfer", "setexact", "touch"}

\* The call of worker p ran alone and an account it names has no row.
AloneOnMissing(p) ==
  /\ Returned(p)
  /\ args[p].op \in NeedsAccount
  /\ args[p].id \in Ids
  /\ \A q \in Procs \ {p} : pc[q] \in {"idle", "off"}
  /\ \/ ~db[args[p].id].present
     \/ args[p].op = "transfer" /\ ~db[args[p].to].present

\* C23: Recharge, Use, Transfer, SetCoinsExact or TouchUsage on an id that has
\* no row returns an error, and changes no account.
C23_MissingAccountErrors ==
  \A p \in watch :
    AloneOnMissing(p) => (ret[p].err # NoErr /\ delta[p] = NoDelta)

\* C29: Deplete answers InvalidArgument to an amount <= 0 and to a user_id
\* that is not a well-formed UUID, FailedPrecondition to an insufficient
\* balance, and Internal to nothing but a failure of the store.
C29_DepleteCodes ==
  \A p \in Procs :
    pc[p] = "replied" =>
      LET a == args[p]
          code == StatusCode(ret[p].err)
      IN /\ (a.amount <= 0 \/ ~UUIDParseOK(TrimSpace(a.userID))) =>
              code = "InvalidArgument"
         /\ Contains(ret[p].err, ErrInsufficient("use")[2]) => code = "FailedPrecondition"
         /\ code = "Internal" =>
              (a.amount > 0 /\ UUIDParseOK(TrimSpace(a.userID)))

\* The balances of u1 and u2.
Balances == <<db["u1"].coins, db["u2"].coins>>

Wanted(p) ==
  IF pc[p] \in {"use_select", "use_update", "tr_select", "tr_debit"} THEN {args[p].id}
  ELSE IF pc[p] = "tr_credit" THEN {args[p].to}
  ELSE {}

\* Worker p waits for worker q: q holds the lock of a row p's next statement
\* needs.
WaitsFor(p, q) ==
  /\ p # q
  /\ \E i \in Wanted(p) : db[i].present /\ lock[i] = q

\* C31: concurrent Transfer calls never form a cycle of transactions waiting
\* on each other, whatever their directions: no two transactions each wait
\* for a row lock the other one holds.
C31_NoWaitCycle ==
  ~ \E p \in Procs, q \in Procs : WaitsFor(p, q) /\ WaitsFor(q, p)

\* ------------------------------------------------------------------------
\* Recharge, BatchRecharge, Use and Transfer calls with any arguments, one per
\* worker and all of them observed, on two accounts that both exist with the
\* same known balance; statements may fail; no SetCoinsExact, no
\* DeleteAccount, no notifier.
StartCoins == MaxInitial

InitMix ==
  /\ db = [i \in Ids |-> Account(StartCoins, 0, 0)]
  /\ lock = [i \in Ids |-> None]
  /\ txw = [p \in Procs |-> NoTx]
  /\ pc = [p \in Procs |-> "idle"]
  /\ args = [p \in Procs |-> NoArgs]
  /\ loc = [p \in Procs |-> NoLoc]
  /\ ret = [p \in Procs |-> NoRet]
  /\ sent = [p \in Procs |-> <<>>]
  /\ delta = [p \in Procs |-> NoDelta]
  /\ clock = 1
  /\ notifier = "nil"
  /\ watch = Procs
  /\ script = 0
  /\ GateOff

NextMix ==
  \E p \in Procs :
    \/ CallUse(p)
    \/ UseSelect(p)
    \/ UseUpdate(p)
    \/ UseCommit(p)
    \/ UseFinish(p)
    \/ UseFail(p)
    \/ CallTransfer(p)
    \/ TransferSelect(p)
    \/ TransferDebit(p)
    \/ TransferCredit(p)
    \/ TransferCommit(p)
    \/ TransferReadFrom(p)
    \/ TransferFinish(p)
    \/ TransferFail(p)
    \/ CallRecharge(p)
    \/ RechargeUpdate(p)
    \/ RechargeFinish(p)
    \/ RechargeFail(p)
    \/ CallBatchRecharge(p)
    \/ BatchRechargeExec(p)
    \/ BatchRechargeFinish(p)
    \/ BatchRechargeFail(p)

SpecMix == InitMix /\ [][NextMix]_vars

\* The amount worker p's call credits to (debits from, when negative) account
\* i, by its arguments.
Posted(p, i) ==
  LET a == args[p] IN
  CASE a.op = "use" -> IF i = a.id THEN 0 - a.amount ELSE 0
    [] a.op = "recharge" -> IF i = a.id THEN a.amount ELSE 0
    [] a.op = "transfer" -> TransferDelta(p)[i]
    [] a.op = "batch" -> IF \E k \in 1..Len(a.ids) : a.ids[k] = i THEN a.amount ELSE 0
    [] OTHER -> 0

\* The sum of the amounts the committed calls of workers 1..n posted to i.
RECURSIVE PostedBy(_, _)
PostedBy(n, i) ==
  IF n = 0 THEN 0
  ELSE PostedBy(n - 1, i) + (IF delta[n] # NoDelta THEN Posted(n, i) ELSE 0)

\* C32: no update is lost: under any interleaving of Recharge, BatchRecharge,
\* Use and Transfer calls on existing accounts, each balance is the initial
\* balance plus the amounts of all committed credits minus the amounts of all
\* committed debits, at every moment and so when all calls have returned.
C32_NoLostUpdate ==
  \A i \in Ids :
    /\ db[i].present
    /\ db[i].coins = StartCoins + PostedBy(NumProcs, i)

\* A Use, a Recharge and a Transfer of the same account have all committed
\* and returned.
C32_Witness ==
  /\ \A p \in Procs : pc[p] = "done" /\ ret[p].err = NoErr
  /\ args[1].op = "use" /\ args[1].id = "u1"
  /\ args[2].op = "recharge" /\ args[2].id = "u1"
  /\ args[3].op = "transfer" /\ args[3].id = "u1" /\ args[3].to = "u2"
  /\ db["u1"].coins = StartCoins - 1
  /\ db["u2"].coins = StartCoins + 1

\* The balance worker p's own commit gave the account it debits: the balance
\* it read under the row lock, minus the amount (plus the amount again when
\* the transfer credits the same account).
OwnBalance(p) ==
  loc[p].coins - args[p].amount
    + (IF args[p].op = "transfer" /\ args[p].to = args[p].id THEN args[p].amount ELSE 0)

\* C33: the Account a successful Use or Transfer returns for the account it
\* debited carries the balance that call's own commit produced, also when
\* other mutations of the same account run concurrently with it.
C33_ReturnsOwnBalance ==
  [][\A p \in watch :
       (/\ pc[p] \in {"use_readback", "tr_readto"}
        /\ pc'[p] = "done"
        /\ ret'[p].err = NoErr)
       => ret'[p].acc.coins = OwnBalance(p)]_vars

\* C34: when SetCoinsExact's first read found the account and its read-back
\* finds the target balance, a call that returns without error has notified
\* exactly when its update changed the balance, and the amount notified is
\* |target - the balance the update overwrote|, also when another mutation
\* of the account committed between the first read and the update.
C34_SetExactOverwritten ==
  [][\A p \in watch :
       LET id == args[p].id IN
       (/\ pc[p] = "se_readback"
        /\ pc'[p] = "done"
        /\ ret'[p].err = NoErr
        /\ notifier = "set"
        /\ loc[p].cur.present
        /\ db[id].coins = args[p].amount)
       => /\ Len(sent'[p]) = (IF delta[p][id] # 0 THEN 1 ELSE 0)
          /\ \A k \in 1..Len(sent'[p]) : sent'[p][k].coinUsed = Abs(delta[p][id])]_vars

\* The notifications worker p's call emitted for account i, and the rows of i
\* whose balance the call changed.
NotifiedFor(p, i) == Cardinality({k \in 1..Len(sent[p]) : sent[p][k].coinID = i})
ChangedFor(p, i) == IF delta[p][i] # 0 THEN 1 ELSE 0

\* C35: notifications correspond one-to-one to balance changes: a Recharge,
\* BatchRecharge, Use or Transfer call never emits more notifications for an
\* id than the rows whose balance it changed for that id (none for an id with
\* no account row, for a repeated id of a batch, for a transfer onto its own
\* source), and a call that returns without error emits exactly as many.
C35_NotificationPerChange ==
  \A p \in watch :
    (Returned(p) /\ notifier = "set"
       /\ args[p].op \in {"recharge", "batch", "use", "transfer"}) =>
      \A i \in Ids :
        /\ NotifiedFor(p, i) <= ChangedFor(p, i)
        /\ ret[p].err = NoErr => NotifiedFor(p, i) = ChangedFor(p, i)

\* The positions of a call after its transaction committed (Use, Transfer) or
\* its autocommitted UPDATE ran (Recharge, BatchRecharge, SetCoinsExact).
AfterCommit == {"use_readback", "tr_readfrom", "tr_readto", "re_readback",
                "ba_notify", "se_readback"}

ValidationErrs ==
  {ErrUserRequired, ErrUserInvalid}
    \cup {ErrAmount(op) : op \in {"use", "transfer", "recharge", "batchRecharge"}}

\* C36: a notification is never emitted before the mutation it reports has
\* committed: the step that emits one is taken after the commit, with the
\* transaction over, no row lock held and the debit of a Use or Transfer
\* already in the committed balance, and it changes no row; and a call that
\* returns a validation error, an insufficient-balance error, or from before
\* its commit (rolled back) has emitted no notification at all.
C36_NotifyAfterCommit ==
  [][\A p \in watch :
       /\ Len(sent'[p]) > Len(sent[p]) =>
            /\ pc[p] \in AfterCommit
            /\ txw[p] = NoTx
            /\ \A i \in Ids : lock[i] # p
            /\ db' = db
            /\ (args[p].op \in {"use", "transfer"} /\ args[p].id # args[p].to) =>
                 delta[p][args[p].id] = 0 - args[p].amount
       /\ (pc'[p] = "done" /\ pc[p] # "done") =>
            /\ pc[p] \notin AfterCommit => sent'[p] = <<>>
            /\ ret'[p].err \in ValidationErrs => sent'[p] = <<>>
            /\ isInsufficient(ret'[p].err) => sent'[p] = <<>>]_vars

\* A transfer between two accounts committed, returned and sent both of its
\* notifications.
C36_Witness ==
  /\ Returned(1)
  /\ args[1].op = "transfer"
  /\ args[1].id # args[1].to
  /\ ret[1].err = NoErr
  /\ delta[1] = TransferDelta(1)
  /\ Len(sent[1]) = 2

\* -------------------------------------------------- gateway: token taking
\* C37: a denied request still consumes tokens: each turn of the loop takes
\* one token from the bucket of its field when the bucket has one, whether or
\* not an earlier field of the request was refused, and refuses the field
\* exactly when it has none; the decision and the return of the handler give
\* no token back, also when the request is answered 429.
C37_DeniedStillConsumes ==
  [][\A h \in Handlers :
       /\ (reqs[h].st = "PARSED" /\ reqs'[h] # reqs[h]) =>
            LET q == reqs[h]
                f == q.fields[q.i]
                k == <<q.client, f>>
                before == IF k \in DOMAIN limiters THEN limiters[k].tokens
                          ELSE quotaFor(f, q.opType).Burst * 60
            IN /\ k \in DOMAIN limiters'
               /\ limiters'[k].tokens = IF before >= 60 THEN before - 60 ELSE before
               /\ reqs'[h].denied = IF before >= 60 THEN q.denied ELSE Append(q.denied, f)
               /\ \A j \in DOMAIN limiters \ {k} : limiters'[j] = limiters[j]
       /\ (reqs[h].st \in {"CHECKED", "DENIED"} /\ reqs'[h] # reqs[h]) =>
            limiters' = limiters]_vars

\* A request for the fields a and c was answered 429 because the bucket of c
\* was empty; the token it took from the bucket of a is gone.
C37_Witness ==
  \E h \in Handlers :
    /\ reqs[h].st = "DENIED"
    /\ reqs[h].fields = << <<"a">>, <<"c">> >>
    /\ reqs[h].denied = << <<"c">> >>
    /\ limiters[<<reqs[h].client, <<"a">>>>].tokens = 60
    /\ limiters[<<reqs[h].client, <<"c">>>>].tokens < 60
    /\ \A g \in Handlers \ {h} : reqs[g].st = "IDLE"

\* C38: a bucket's rate and capacity are fixed by the configuration resolved
\* on the first request that names its (client, field) key: the step that
\* creates the bucket gives it the quota of that request's field and
\* operation class, and no later step changes the rate or the capacity of an
\* existing bucket or removes it, also when a later request with the same key
\* resolves to a different configuration.
C38_BucketConfigFixed ==
  [][/\ \A k \in DOMAIN limiters :
          /\ k \in DOMAIN limiters'
          /\ limiters'[k].perMinute = limiters[k].perMinute
          /\ limiters'[k].burst = limiters[k].burst
     /\ \A k \in DOMAIN limiters' \ DOMAIN limiters :
          \E h \in Handlers :
            LET q == reqs[h] IN
            /\ q.st = "PARSED"
            /\ reqs'[h].i = q.i + 1
            /\ k = <<q.client, q.fields[q.i]>>
            /\ limiters'[k].perMinute = quotaFor(q.fields[q.i], q.opType).PerMinute
            /\ limiters'[k].burst = quotaFor(q.fields[q.i], q.opType).Burst]_vars

\* A mutation naming field a was handled on the bucket an earlier query had
\* created for the same key: the bucket still has the query quota.
C38_Witness ==
  \E h \in Handlers :
    LET k == <<reqs[h].client, <<"a">>>> IN
    /\ reqs[h].st \in {"ALLOWED", "DENIED"}
    /\ reqs[h].opType = "mutation"
    /\ reqs[h].fields = << <<"a">> >>
    /\ k \in DOMAIN limiters
    /\ limiters[k].burst = cfg.defaultQuery.Burst
    /\ limiters[k].perMinute = cfg.defaultQuery.PerMinute
    /\ cfg.defaultQuery # cfg.defaultMutation

\* ------------------------------------------- gateway: concurrent lookups
\* rl.limiterFor(k, cfg).Allow() statement by statement, for handler
\* goroutines that run it at the same time.  A handler holds rl.mu from
\* rl.mu.Lock() to the return of limiterFor (the deferred Unlock).
HoldsMu(h) == reqs[h].st \in {"LOCKED", "MISSING"}

\* A Lock() that never waits.
MuFree_NoMutex(h) == TRUE

\* rl.mu.Lock() goes through when no other goroutine holds the mutex.
MuFree(h) == \A g \in Handlers \ {h} : ~HoldsMu(g)

\* The key of the field handler h's loop is at.
LoopKey(h) == rateKeyOf(reqs[h].client, reqs[h].fields[reqs[h].i])

\* rl.mu.Lock()
LimiterLock(h) ==
  /\ reqs[h].st = "PARSED"
  /\ MuFree(h)
  /\ reqs' = [reqs EXCEPT ![h].st = "LOCKED"]
  /\ UNCHANGED <<cfg, limiters, meter, ledgerVars>>

\* if l, ok := rl.limiters[k]; ok { return l }
LimiterLookup(h) ==
  /\ reqs[h].st = "LOCKED"
  /\ reqs' = [reqs EXCEPT ![h].st = IF LoopKey(h) \in DOMAIN limiters
                                    THEN "HELD" ELSE "MISSING"]
  /\ UNCHANGED <<cfg, limiters, meter, ledgerVars>>

\* l := rate.NewLimiter(perSec, cfg.Burst); rl.limiters[k] = l; return l
LimiterStore(h) ==
  /\ reqs[h].st = "MISSING"
  /\ LET q == reqs[h]
         f == q.fields[q.i]
     IN limiters' = (LoopKey(h) :> NewLimiter(quotaFor(f, q.opType))) @@ limiters
  /\ reqs' = [reqs EXCEPT ![h].st = "HELD"]
  /\ meter' = IF meter.on /\ LoopKey(h) = MeasuredKey
              THEN [meter EXCEPT !.made = @ + 1] ELSE meter
  /\ UNCHANGED <<cfg, ledgerVars>>

\* .Allow() on the limiter limiterFor returned (the bucket of the key), and
\* the rest of the loop turn.
LimiterAllow(h) ==
  /\ reqs[h].st = "HELD"
  /\ LET q == reqs[h]
         f == q.fields[q.i]
         k == LoopKey(h)
         l == limiters[k]
     IN /\ limiters' = (k :> Taken(l)) @@ limiters
        /\ reqs' = [reqs EXCEPT
                      ![h].denied = IF Allow(l) THEN @ ELSE Append(@, f),
                      ![h].i = @ + 1,
                      ![h].st = IF q.i = Len(q.fields) THEN "CHECKED" ELSE "PARSED"]
        /\ meter' = Metered(Allow(l))
  /\ UNCHANGED <<cfg, ledgerVars>>

\* Concurrent POST {a} requests of one client, measured, under a quota of
\* any burst up to MaxBurst.
NextRace ==
  \/ \E h \in Handlers :
       \/ GateReceive(h)
       \/ GateParse(h)
       \/ LimiterLock(h)
       \/ LimiterLookup(h)
       \/ LimiterStore(h)
       \/ LimiterAllow(h)
       \/ GateDecide(h)
       \/ GateDone(h)
  \/ GateTick

SpecRace == InitBurst /\ [][NextRace]_vars

\* What holds of the buckets between steps: one bucket was made for the key
\* when the key has one and none before, every bucket holds between 0 and
\* burst tokens, at most burst requests were admitted since the last second
\* passed, and at most one goroutine holds the mutex.
BucketsSound ==
  LET b == cfg.defaultQuery.Burst IN
  /\ meter.made = (IF MeasuredKey \in DOMAIN limiters THEN 1 ELSE 0)
  /\ DOMAIN limiters \subseteq {MeasuredKey}
  /\ \A k \in DOMAIN limiters :
       /\ limiters[k].burst = b
       /\ limiters[k].tokens >= 0
       /\ limiters[k].tokens <= b * 60
  /\ meter.sinceTick <= b
  /\ Cardinality({h \in Handlers : HoldsMu(h)}) <= 1

\* C39: under any interleaving of concurrent requests for the same (client,
\* field) key, exactly one bucket is ever created for the key and no step
\* replaces or removes it (its tokens never rise while no time passes); the
\* token count stays within 0..burst, and the requests admitted for the key
\* while no time passes number at most burst.
C39_OneBucketPerKey ==
  [][/\ BucketsSound'
     /\ \A k \in DOMAIN limiters :
          /\ k \in DOMAIN limiters'
          /\ limiters'[k].burst = limiters[k].burst
          /\ limiters'[k].perMinute = limiters[k].perMinute
          /\ meter'.ticks = meter.ticks =>
               limiters'[k].tokens \in {limiters[k].tokens, limiters[k].tokens - 60}]_vars

\* Two goroutines are inside the lookup-and-take of the same key at once: one
\* holds the mutex after a lookup, the other holds the bucket it was given
\* and has not called Allow yet; the one bucket made for the key, of burst 1,
\* has already admitted a request.
C39_Witness ==
  /\ meter.made = 1
  /\ cfg.defaultQuery.Burst = 1
  /\ meter.ticks = 0
  /\ meter.sinceTick = 1
  /\ limiters[MeasuredKey].tokens = 0
  /\ HoldsMu(1)
  /\ reqs[2].st = "HELD"
====
